---------------------------- MODULE Spec2Model ----------------------------
(***************************************************************************)
(* Model of the questionnaire agent's retry workflows.                     *)
(*                                                                         *)
(*   _execute_workflow            src/question_answerer.py  (UI and CLI)   *)
(*   process_question_with_agents src/question_answerer.py  (GUI batch)    *)
(*   answer_question              src/main.py     (three-agent prototype)  *)
(*                                                                         *)
(* A text is a sequence of tokens: the word token "w" stands for one       *)
(* character of prose, a URL token for one URL occurring in the text.      *)
(* The remote agents and the HTTP probe are the environment: every         *)
(* response they can give is chosen nondeterministically.  Questions are   *)
(* processed one after another, as the batch drivers do; the worker        *)
(* threads of the window are modelled apart, with one frame per call.      *)
(*                                                                         *)
(* The link checker, the traced methods, the worker threads, the agent     *)
(* session, the batch driver and the extractor each have a specification   *)
(* of their own, which starts that part and leaves the others absent.      *)
(* The extractor works on characters: there a text is a sequence of        *)
(* one-character strings.                                                  *)
(***************************************************************************)
EXTENDS Integers, Sequences, FiniteSets, TLC

VARIABLES
    wf,                       \* the workflow function that is running
    pc,                       \* its position
    attempt,                  \* local `attempt`
    max_attempts,             \* local `max_attempts`
    char_limit,               \* parameter `char_limit`
    accumulated_valid_links,  \* local `accumulated_valid_links`
    candidate_answer,         \* local `candidate_answer` of answer_question
    clean_answer,             \* local `clean_answer`
    all_links,                \* local `all_links`
    links_valid,              \* local `links_valid`
    valid_links,              \* local `valid_links`
    result,                   \* the tuple returned to the caller
    earlier,                  \* history: a question was processed before this one
    overridden,               \* history: the caller passed max_retries itself
    genCalls,                 \* history: generator calls of this run
    avCalls,                  \* history: answer-validator calls of this run
    lvCalls,                  \* history: link-validator calls of this run
    genFailed,                \* history: the last generator call gave no text
    raised,                   \* history: a collaborator's exception ended the run
    avAt,                     \* history: answer verdicts of attempts 1 and 2
    lvAt,                     \* history: link verdicts of attempts 1 and 2
    acc_before,               \* history: accumulator before the last link validation
    returnedValid,            \* history: union of the valid subsets returned
    probedOk,                 \* history: URLs that got HTTP 200 in this run
    calls,                    \* history: what the latest attempt called, with the outcomes
    accepted,                 \* history: the text the answer validator accepted in this attempt
    lc,                       \* a call of _execute_link_checker
    tr,                       \* a call of a traced method
    cw,                       \* concurrent _execute_workflow calls on one window object
    fs,                       \* the session object, and the with statement on it
    bt,                       \* the batch driver and the workbook it goes through
    ex                        \* a call of the extractor, and a second one on its result

wfVars == <<wf, pc, attempt, max_attempts, char_limit, accumulated_valid_links,
          candidate_answer, clean_answer, all_links, links_valid, valid_links,
          result, earlier, overridden, genCalls, avCalls, lvCalls, genFailed,
          raised, avAt, lvAt, acc_before, returnedValid, probedOk, calls,
          accepted>>

\* Each part beside the workflow is one record: the locals of the call or
\* the fields of the object, its position pc, and its history.
lcVars == <<lc>>

trVars == <<tr>>

cwVars == <<cw>>

fsVars == <<fs>>

btVars == <<bt>>

exVars == <<ex>>

\* one run of a workflow and the helpers it calls
runVars == <<wfVars, lcVars, trVars>>

\* what surrounds a run: threads, agent sessions, sheets, the extractor
hostVars == <<cwVars, fsVars, btVars, exVars>>

besideLinks == <<wfVars, trVars, hostVars>>

besideTraces == <<wfVars, lcVars, hostVars>>

besideThreads == <<runVars, fsVars, btVars, exVars>>

besideSessions == <<runVars, cwVars, btVars, exVars>>

besideBatch == <<runVars, cwVars, fsVars, exVars>>

besideExtractor == <<runVars, cwVars, fsVars, btVars>>

vars == <<runVars, hostVars>>

localVars == <<candidate_answer, clean_answer, all_links, links_valid, valid_links>>

-----------------------------------------------------------------------------
(* Bounds of the model *)

MaxAnswerLen == 2     \* tokens in a generated answer
MaxDocUrls == 1       \* citation URLs the generator attaches out of band
MaxOverride == 2      \* largest max_retries a caller passes explicitly
MaxSheets == 2        \* most sheets of a workbook
MaxRows == 2          \* most rows of a sheet
MaxFragments == 2     \* most pieces of a text given to the extractor

(* Program constants *)

DefaultMaxRetries == 10
MAX_ATTEMPTS == 10

-----------------------------------------------------------------------------
(* Values *)

URLS == {"u1", "u2"}
Words == {"w"}
Tokens == Words \cup URLS

BoundedSeq(S, n) == UNION {[1..k -> S] : k \in 0..n}

Range(s) == {s[i] : i \in 1..Len(s)}

NoDup(s) == \A i, j \in 1..Len(s) : s[i] = s[j] => i = j

Perms(S) == {s \in [1..Cardinality(S) -> S] : Range(s) = S}

None == <<"None">>

Falsy(a) == a = None \/ a = <<>>

MsgExhausted == <<"Failed to generate acceptable answer after max_attempts attempts">>
MsgGeneratorFailed == <<"Question Answerer failed to generate an answer">>
MsgError == <<"Error">>
Pending == <<"pending">>

NoResult == [success |-> FALSE, answer |-> Pending, links |-> <<>>]

Failure(msg) == [success |-> FALSE, answer |-> msg, links |-> <<>>]

\* a slip: a success without its link list
Success_NoLinks(text, links) == [success |-> TRUE, answer |-> text, links |-> <<>>]

Success(text, links) == [success |-> TRUE, answer |-> text, links |-> links]

ProbeOutcomes == {"200", "404", "error"}

\* the feedback strings of the link checker
MsgNoUrls == "No documentation URLs provided. All answers must include source links."
MsgAllValid == "All n links are valid"
MsgSomeValid == "Found n valid links (removed m invalid)"
MsgNoneValid == "No valid documentation URLs found after validation"
MsgLinkError == "Error: e"

NoReturn == <<"no return">>

\* None as a column name
NoColumn == "<None>"

NoCall == [fn |-> "none", resp |-> "none", ret |-> NoReturn, inner |-> 0,
           tracer |-> FALSE, headless |-> FALSE]

\* what a call of the answer checker can come to: the agent's verdict, or an
\* exception anywhere in the call
CheckerOutcomes == {"VALID", "INVALID", "exception"}

\* the events that end an attempt by rejecting it, and those that record a
\* collaborator's exception
Rejections == {"limit", "av_reject", "av_error", "lv_reject", "lv_error"}

CollaboratorErrors == {"av_error", "lv_error", "av_raise", "lv_raise"}

Last(s) == s[Len(s)]

\* the history keeps the verdicts of the first two attempts
EmptyLog == [a \in {1, 2} |-> "none"]

Logged(log, a, v) == IF a \in DOMAIN log THEN [log EXCEPT ![a] = v] ELSE log

-----------------------------------------------------------------------------
(* Pure functions *)

IsUrl(t) == t \in URLS

\* extract_links_and_clean on token level: the text with every URL removed,
\* and the URLs in order of appearance.
extract_links_and_clean(text) ==
    <<SelectSeq(text, LAMBDA t : ~IsUrl(t)), SelectSeq(text, IsUrl)>>

\* list(set(doc_urls + text_links)): the order of a set is not defined.
CombinedLinks(doc_urls, text_links) == Perms(Range(doc_urls \o text_links))

\* a slip: any response of the server makes a link valid
execute_link_checker_AnyStatus(links, probe) ==
    LET valid == SelectSeq(links, LAMBDA l : probe[l] # "error")
    IN  IF valid # <<>> THEN <<TRUE, valid>> ELSE <<FALSE, <<>>>>

\* _execute_link_checker: the probe gives every URL its outcome.
execute_link_checker(links, probe) ==
    LET valid == SelectSeq(links, LAMBDA l : probe[l] = "200")
    IN  IF links = <<>> THEN <<FALSE, <<>>>>
        ELSE IF valid # <<>> THEN <<TRUE, valid>>
        ELSE <<FALSE, <<>>>>

\* validate_links: any exception becomes (False, []).
validate_links(links, probe, exc) ==
    IF exc THEN <<FALSE, <<>>>> ELSE execute_link_checker(links, probe)

\* a slip: only the first valid link is kept
Accumulate_FirstOnly(acc, valid) ==
    IF valid = <<>> \/ Head(valid) \in Range(acc) THEN acc
    ELSE Append(acc, Head(valid))

RECURSIVE Accumulate(_, _)
\* for link in valid_links: if link not in accumulated: accumulated.append(link)
Accumulate(acc, valid) ==
    IF valid = <<>> THEN acc
    ELSE Accumulate(IF Head(valid) \in Range(acc) THEN acc
                    ELSE Append(acc, Head(valid)), Tail(valid))

\* slips of the loop test: one attempt too few, one too many
WhileGuard_Strict(att, max) == att < max

WhileGuard_OffByOne(att, max) == att <= max + 1

\* while attempt <= max_attempts
WhileGuard(att, max) == att <= max

\* a slip of the limit test
OverLimit_OffByOne(clean, limit) == Len(clean) > limit + 1

\* a slip: the limit is not tested
OverLimit_Never(clean, limit) == FALSE

\* if len(clean_answer) > char_limit
OverLimit(clean, limit) == Len(clean) > limit

-----------------------------------------------------------------------------
(* Inputs and environment responses *)

Answers == BoundedSeq(Tokens, MaxAnswerLen)

DocUrlLists == BoundedSeq(URLS, MaxDocUrls)

\* what the generator hands back: None (exception, failed run, no assistant
\* message) or a text, which may be empty
GeneratorTexts == {None} \cup Answers

\* the limit a caller passes: one less than the longest answer
CharLimits == {MaxAnswerLen - 1}

Probes == [URLS -> ProbeOutcomes]

\* --max-retries is any integer the command line parses; the retries entry
\* of the window is used only when it is all digits
CliMaxRetries == (-1)..MaxOverride

GuiMaxRetries == 0..MaxOverride

UiWorkflows == {"execute_workflow", "process_question_with_agents"}

\* the worker threads of the window: the Ask button and the import button
\* each start one
Threads == {"ask", "import"}

\* what the generator hands a thread: nothing, prose, prose with a URL, or
\* a text over the limit
ThreadTexts ==
    {None, <<"w">>, <<"w", "u1">>, [i \in 1..(MaxAnswerLen + 1) |-> "w"]}

ThreadMaxRetries == 1..MaxOverride

\* the verdicts and probe outcomes a thread's collaborators give
ThreadVerdicts == {"VALID", "INVALID"}

ThreadProbes == {"200", "404"}

-----------------------------------------------------------------------------
(* State after construction: no workflow has run *)

\* A part of the program that is not running in a specification.
Absent == [pc |-> "absent"]

\* no call of _execute_link_checker yet
IdleLinkChecker ==
    [pc |-> "idle",        \* position of the call
     links |-> <<>>,       \* its parameter `links`
     i |-> 0,              \* how many links the for loop has taken
     valid |-> <<>>,       \* its local `valid_links`
     invalid |-> <<>>,     \* its local `invalid_links`
     result |-> NoReturn,  \* what validate_links returned
     probes |-> <<>>,      \* history: the URLs requests.head was called with
     outcomes |-> <<>>]    \* history: what each of these probes came to

\* no call of a traced method yet
IdleTracer ==
    [pc |-> "idle",        \* position of the call
     fn |-> "none",        \* which method is called
     tracer |-> FALSE,     \* self.tracer is set
     headless |-> FALSE,   \* self.headless_mode
     resp |-> "none",      \* what the wrapped call comes to
     ret |-> NoReturn,     \* what the method returned
     inner |-> 0,          \* history: calls of the wrapped method in this call
     emitted |-> {},       \* history: where this call emitted spans and messages
     prev |-> NoCall]      \* history: the call before this one

\* the window after __init__: no agent ids, no worker thread started
IdleThreads ==
    [pc |-> [t \in Threads |-> "idle"],          \* position of each thread
     attempt |-> [t \in Threads |-> 0],          \* each call's local `attempt`
     max |-> [t \in Threads |-> 0],              \* each call's local `max_attempts`
     limit |-> [t \in Threads |-> 0],            \* each call's parameter `char_limit`
     acc |-> [t \in Threads |-> <<>>],           \* each call's `accumulated_valid_links`
     clean |-> [t \in Threads |-> <<>>],         \* each call's local `clean_answer`
     links |-> [t \in Threads |-> <<>>],         \* each call's local `all_links`
     lv |-> [t \in Threads |-> <<FALSE, <<>>>>], \* each call's `links_valid`, `valid_links`
     result |-> [t \in Threads |-> NoResult],    \* what each call returned
     log |-> [t \in Threads |-> <<>>],           \* history: the responses each call received
     made |-> [t \in Threads |-> <<>>],          \* history: the collaborator calls each call made
     agent_ids |-> FALSE,                        \* the three agent ids of the object are set
     agents_created |-> 0,                       \* history: how often create_agents ran
     sink_writers |-> {}]                        \* history: the threads that wrote to the log

\* FoundryAgentSession.__init__: no agent, no thread
NewSession ==
    [pc |-> "constructed",         \* position of the with statement
     name |-> "question-answerer", \* self.name
     agent_id |-> None,            \* self.agent_id
     thread_id |-> None,           \* self.thread_id
     exc |-> None,                 \* the exception in flight, if any
     from |-> "none",              \* who called _cleanup_resources: __enter__ or __exit__
     outcome |-> NoReturn,         \* how the with statement ended for its caller
     body |-> 0,                   \* history: how often the body of the with statement ran
     calls |-> <<>>,               \* history: the client calls of the session, with results
     caller |-> "generate_answer", \* the method whose with statement this is
     aq |-> "running",             \* answer_question: running, or how it returned
     attempt |-> 1,                \* local `attempt` of answer_question
     pending |-> {},               \* history: resources created, deletion not yet attempted
     open |-> 0]                   \* history: sessions entered and not yet left

\* no workbook opened yet
IdleBatch ==
    [pc |-> "idle",          \* position of the batch driver
     total |-> 0,            \* len(excel_file.sheet_names)
     sheet |-> 0,            \* index of the sheet of the for loop
     headers |-> <<>>,       \* df.columns of this sheet
     nrows |-> 0,            \* len(df) of this sheet
     cols |-> <<NoColumn, NoColumn, NoColumn>>,  \* question_col, answer_col, docs_col
     row |-> 0,              \* index of the row of the for loop
     attempted |-> 0,        \* questions_attempted
     answers |-> {},         \* rows of df whose answer cell was set
     saved |-> {},           \* sheets written back with wb.save, with the rows written
     before |-> <<>>,        \* the rows of this sheet as read, one cell per header
     df |-> <<>>,            \* the rows of df, after the workflow of each
     ws |-> <<>>,            \* the rows of the worksheet after the sheet was done
     failed |-> FALSE,       \* history: the classifier backend failed for this sheet
     events |-> <<>>,        \* history: what the driver did for this sheet, in order
     classified |-> <<>>]    \* history: the sheets the classifier was called for

\* no call of the extractor yet
IdleExtractor ==
    [pc |-> "idle",     \* position of the caller
     text |-> <<>>,     \* parameter `text`, a sequence of characters
     clean |-> <<>>,    \* `clean_text` returned for text
     urls |-> <<>>,     \* `urls` returned for text
     clean2 |-> <<>>,   \* `clean_text` returned for clean
     urls2 |-> <<>>]    \* `urls` returned for clean

\* The state after construction: no question is being processed.  The
\* parts beside the workflow start as given.
StartWith(links, traces, threads, session, batch, extractor) ==
    /\ wf = "none"
    /\ pc = "idle"
    /\ attempt = 1
    /\ max_attempts = DefaultMaxRetries
    /\ char_limit \in CharLimits
    /\ accumulated_valid_links = <<>>
    /\ candidate_answer = None
    /\ clean_answer = <<>>
    /\ all_links = <<>>
    /\ links_valid = FALSE
    /\ valid_links = <<>>
    /\ result = NoResult
    /\ earlier = FALSE
    /\ overridden = FALSE
    /\ genCalls = 0
    /\ avCalls = 0
    /\ lvCalls = 0
    /\ genFailed = FALSE
    /\ raised = FALSE
    /\ avAt = EmptyLog
    /\ lvAt = EmptyLog
    /\ acc_before = <<>>
    /\ returnedValid = {}
    /\ probedOk = {}
    /\ calls = <<>>
    /\ accepted = None
    /\ lc = links
    /\ tr = traces
    /\ cw = threads
    /\ fs = session
    /\ bt = batch
    /\ ex = extractor

\* The workflows, one question after another.
Init == StartWith(Absent, Absent, Absent, Absent, Absent, Absent)

LinkInit == StartWith(IdleLinkChecker, Absent, Absent, Absent, Absent, Absent)

TraceInit == StartWith(Absent, IdleTracer, Absent, Absent, Absent, Absent)

ThreadInit == StartWith(Absent, Absent, IdleThreads, Absent, Absent, Absent)

SessionInit == StartWith(Absent, Absent, Absent, NewSession, Absent, Absent)

BatchInit == StartWith(Absent, Absent, Absent, Absent, IdleBatch, Absent)

ExtractInit == StartWith(Absent, Absent, Absent, Absent, Absent, IdleExtractor)

\* The locals of an iteration are dead once the iteration ends: `continue`
\* and `return` leave nothing of them to be read.
DropLocals ==
    /\ candidate_answer' = None
    /\ clean_answer' = <<>>
    /\ all_links' = <<>>
    /\ links_valid' = FALSE
    /\ valid_links' = <<>>

\* The history of a run starts empty.
FreshHistory ==
    /\ earlier' = (pc = "done")
    /\ genCalls' = 0
    /\ avCalls' = 0
    /\ lvCalls' = 0
    /\ genFailed' = FALSE
    /\ raised' = FALSE
    /\ avAt' = EmptyLog
    /\ lvAt' = EmptyLog
    /\ acc_before' = <<>>
    /\ returnedValid' = {}
    /\ probedOk' = {}
    /\ calls' = <<>>
    /\ accepted' = None

\* attempt = 1; max_attempts = max_retries; then the first test of the loop
EnterLoop(max) ==
    /\ attempt' = 1
    /\ max_attempts' = max
    /\ IF WhileGuard(1, max)
       THEN pc' = "generate" /\ result' = NoResult
       ELSE pc' = "done" /\ result' = Failure(MsgExhausted)

\* a slip: the counter goes up by two
NextAttempt_SkipsOne(att) == att + 2

\* attempt += 1
NextAttempt(att) == att + 1

\* attempt += 1; continue; and the fall-through once the loop test fails
Retry ==
    /\ attempt' = NextAttempt(attempt)
    /\ DropLocals
    /\ IF WhileGuard(NextAttempt(attempt), max_attempts)
       THEN pc' = "generate" /\ result' = result
       ELSE pc' = "done" /\ result' = Failure(MsgExhausted)

\* return from the workflow: the tuple goes to the caller, the locals end
Return(r) ==
    /\ pc' = "done"
    /\ result' = r
    /\ attempt' = attempt
    /\ DropLocals

\* The history of an attempt ends with the attempt: it is kept while the
\* attempt runs and after the run has returned.
Kept(trace) == IF pc' = "generate" THEN <<>> ELSE trace

-----------------------------------------------------------------------------
(* QuestionnaireAgentUI._execute_workflow *)

\* a slip: the list outlives the run that filled it
EW_StaleAccumulator == accumulated_valid_links

\* accumulated_valid_links = []
EW_FreshAccumulator == <<>>

\* process_single_question_cli and the Ask button pass max_retries, or the
\* constructor's default when the caller gave none
EW_Start ==
    /\ UNCHANGED <<lcVars, trVars, hostVars>>
    /\ pc \in {"idle", "done"}
    /\ wf' = "execute_workflow"
    /\ char_limit' \in CharLimits
    /\ \/ overridden' = FALSE /\ EnterLoop(DefaultMaxRetries)
       \/ \E mr \in CliMaxRetries : overridden' = TRUE /\ EnterLoop(mr)
    /\ accumulated_valid_links' = EW_FreshAccumulator
    /\ DropLocals
    /\ FreshHistory

\* a slip: a generator failure handled like a rejected attempt
EW_OnGeneratorFailure_Retries == Retry

\* a slip: the answer validator is called although there is no text
EW_OnGeneratorFailure_Validates ==
    /\ pc' = "validate_answer"
    /\ UNCHANGED <<attempt, result>>
    /\ DropLocals

\* if not candidate_answer: break; the code after the loop returns
EW_OnGeneratorFailure == Return(Failure(MsgExhausted))

\* generate_answer, extract_links_and_clean, the combination of the links
EW_Generate ==
    /\ UNCHANGED <<lcVars, trVars, hostVars>>
    /\ wf = "execute_workflow"
    /\ pc = "generate"
    /\ genCalls' = genCalls + 1
    /\ \E ans \in GeneratorTexts, doc_urls \in DocUrlLists :
         /\ genFailed' = Falsy(ans)
         /\ calls' = <<IF Falsy(ans) THEN "gen_none" ELSE "gen_text">>
         /\ IF Falsy(ans)
            THEN EW_OnGeneratorFailure
            ELSE /\ clean_answer' = extract_links_and_clean(ans)[1]
                 /\ all_links' \in CombinedLinks(doc_urls, extract_links_and_clean(ans)[2])
                 /\ pc' = "check_limit"
                 /\ UNCHANGED <<attempt, result, candidate_answer,
                                links_valid, valid_links>>
    /\ UNCHANGED <<wf, max_attempts, char_limit, accumulated_valid_links,
                   earlier, overridden, avCalls, lvCalls, raised, avAt, lvAt,
                   acc_before, returnedValid, probedOk, accepted>>

\* the character limit
EW_CheckLimit ==
    /\ UNCHANGED <<lcVars, trVars, hostVars>>
    /\ wf = "execute_workflow"
    /\ pc = "check_limit"
    /\ IF OverLimit(clean_answer, char_limit)
       THEN Retry /\ calls' = Kept(Append(calls, "limit"))
       ELSE /\ pc' = "validate_answer"
            /\ UNCHANGED <<attempt, result, localVars, calls>>
    /\ UNCHANGED <<wf, max_attempts, char_limit, accumulated_valid_links,
                   earlier, overridden, genCalls, avCalls, lvCalls, genFailed,
                   raised, avAt, lvAt, acc_before, returnedValid, probedOk,
                   accepted>>

\* validate_answer: VALID, INVALID, no response, or an exception (caught,
\* returned as not valid)
EW_ValidateAnswer ==
    /\ UNCHANGED <<lcVars, trVars, hostVars>>
    /\ wf = "execute_workflow"
    /\ pc = "validate_answer"
    /\ avCalls' = avCalls + 1
    /\ \E outcome \in CheckerOutcomes :
         LET answer_valid == outcome = "VALID"
         IN  /\ avAt' = Logged(avAt, attempt, IF answer_valid THEN "accept" ELSE "reject")
             /\ accepted' = IF answer_valid THEN clean_answer ELSE None
             /\ IF ~answer_valid
                THEN Retry
                ELSE /\ pc' = "validate_links"
                     /\ UNCHANGED <<attempt, result, localVars>>
             /\ calls' = Kept(Append(calls, CASE outcome = "VALID" -> "av_accept"
                                              [] outcome = "INVALID" -> "av_reject"
                                              [] OTHER -> "av_error"))
    /\ UNCHANGED <<wf, max_attempts, char_limit, accumulated_valid_links,
                   earlier, overridden, genCalls, lvCalls, genFailed, raised,
                   lvAt, acc_before, returnedValid, probedOk>>

\* validate_links, then the accumulation of this attempt's valid links
EW_ValidateLinks ==
    /\ UNCHANGED <<lcVars, trVars, hostVars>>
    /\ wf = "execute_workflow"
    /\ pc = "validate_links"
    /\ lvCalls' = lvCalls + 1
    /\ \E probe \in Probes, exc \in BOOLEAN :
         LET r == validate_links(all_links, probe, exc)
         IN  /\ links_valid' = r[1]
             /\ valid_links' = r[2]
             /\ accumulated_valid_links' = Accumulate(accumulated_valid_links, r[2])
             /\ lvAt' = Logged(lvAt, attempt, IF r[1] THEN "accept" ELSE "reject")
             /\ returnedValid' = returnedValid \cup Range(r[2])
             /\ probedOk' = probedOk \cup
                    (IF exc THEN {} ELSE {l \in Range(all_links) : probe[l] = "200"})
             /\ calls' = Append(calls, IF exc THEN "lv_error"
                                       ELSE IF r[1] THEN "lv_accept" ELSE "lv_reject")
    /\ acc_before' = accumulated_valid_links
    /\ pc' = "decide"
    /\ UNCHANGED <<wf, attempt, max_attempts, char_limit, candidate_answer,
                   clean_answer, all_links, result, earlier, overridden,
                   genCalls, avCalls, genFailed, raised, avAt, accepted>>

\* a slip: every link of the attempt must be valid
EW_NoUsableLinks_Strict == ~links_valid \/ Len(valid_links) < Len(all_links)

\* a slip: one valid link is not enough
EW_NoUsableLinks_NeedsTwo == Len(accumulated_valid_links) < 2

\* if not links_valid and not accumulated_valid_links
EW_NoUsableLinks == ~links_valid /\ accumulated_valid_links = <<>>

\* a slip: the list is handed over and emptied
EW_Succeed_Clears ==
    /\ Return(Success(clean_answer, accumulated_valid_links))
    /\ accumulated_valid_links' = <<>>

\* final_valid_links = accumulated_valid_links.copy(); return True, ...
EW_Succeed ==
    /\ Return(Success(clean_answer, accumulated_valid_links))
    /\ accumulated_valid_links' = accumulated_valid_links

\* the termination rule
EW_Decide ==
    /\ UNCHANGED <<lcVars, trVars, hostVars>>
    /\ wf = "execute_workflow"
    /\ pc = "decide"
    /\ IF EW_NoUsableLinks
       THEN Retry /\ accumulated_valid_links' = accumulated_valid_links
       ELSE EW_Succeed
    /\ accepted' = IF EW_NoUsableLinks THEN None ELSE accepted
    /\ calls' = Kept(calls)
    /\ UNCHANGED <<wf, max_attempts, char_limit, earlier, overridden,
                   genCalls, avCalls, lvCalls, genFailed, raised, avAt, lvAt,
                   acc_before, returnedValid, probedOk>>

-----------------------------------------------------------------------------
(* QuestionnaireAgentUI.process_question_with_agents *)

\* accumulated_valid_links = []
PQ_FreshAccumulator == <<>>

\* process_excel_file passes the number in the retries entry, else the
\* constructor's default
PQ_Start ==
    /\ UNCHANGED <<lcVars, trVars, hostVars>>
    /\ pc \in {"idle", "done"}
    /\ wf' = "process_question_with_agents"
    /\ char_limit' \in CharLimits
    /\ \/ overridden' = FALSE /\ EnterLoop(DefaultMaxRetries)
       \/ \E mr \in GuiMaxRetries : overridden' = TRUE /\ EnterLoop(mr)
    /\ accumulated_valid_links' = PQ_FreshAccumulator
    /\ DropLocals
    /\ FreshHistory

\* if not candidate_answer: return False, "Question Answerer failed ...", []
PQ_OnGeneratorFailure == Return(Failure(MsgGeneratorFailed))

\* generate_answer, extract_links_and_clean, the combination of the links
PQ_Generate ==
    /\ UNCHANGED <<lcVars, trVars, hostVars>>
    /\ wf = "process_question_with_agents"
    /\ pc = "generate"
    /\ genCalls' = genCalls + 1
    /\ \E ans \in GeneratorTexts, doc_urls \in DocUrlLists :
         /\ genFailed' = Falsy(ans)
         /\ calls' = <<IF Falsy(ans) THEN "gen_none" ELSE "gen_text">>
         /\ IF Falsy(ans)
            THEN PQ_OnGeneratorFailure
            ELSE /\ clean_answer' = extract_links_and_clean(ans)[1]
                 /\ all_links' \in CombinedLinks(doc_urls, extract_links_and_clean(ans)[2])
                 /\ pc' = "check_limit"
                 /\ UNCHANGED <<attempt, result, candidate_answer,
                                links_valid, valid_links>>
    /\ UNCHANGED <<wf, max_attempts, char_limit, accumulated_valid_links,
                   earlier, overridden, avCalls, lvCalls, raised, avAt, lvAt,
                   acc_before, returnedValid, probedOk, accepted>>

\* the character limit
PQ_CheckLimit ==
    /\ UNCHANGED <<lcVars, trVars, hostVars>>
    /\ wf = "process_question_with_agents"
    /\ pc = "check_limit"
    /\ IF OverLimit(clean_answer, char_limit)
       THEN Retry /\ calls' = Kept(Append(calls, "limit"))
       ELSE /\ pc' = "validate_answer"
            /\ UNCHANGED <<attempt, result, localVars, calls>>
    /\ UNCHANGED <<wf, max_attempts, char_limit, accumulated_valid_links,
                   earlier, overridden, genCalls, avCalls, lvCalls, genFailed,
                   raised, avAt, lvAt, acc_before, returnedValid, probedOk,
                   accepted>>

\* validate_answer: VALID, INVALID, no response, or an exception (caught,
\* returned as not valid)
PQ_ValidateAnswer ==
    /\ UNCHANGED <<lcVars, trVars, hostVars>>
    /\ wf = "process_question_with_agents"
    /\ pc = "validate_answer"
    /\ avCalls' = avCalls + 1
    /\ \E outcome \in CheckerOutcomes :
         LET answer_valid == outcome = "VALID"
         IN  /\ avAt' = Logged(avAt, attempt, IF answer_valid THEN "accept" ELSE "reject")
             /\ accepted' = IF answer_valid THEN clean_answer ELSE None
             /\ IF ~answer_valid
                THEN Retry
                ELSE /\ pc' = "validate_links"
                     /\ UNCHANGED <<attempt, result, localVars>>
             /\ calls' = Kept(Append(calls, CASE outcome = "VALID" -> "av_accept"
                                              [] outcome = "INVALID" -> "av_reject"
                                              [] OTHER -> "av_error"))
    /\ UNCHANGED <<wf, max_attempts, char_limit, accumulated_valid_links,
                   earlier, overridden, genCalls, lvCalls, genFailed, raised,
                   lvAt, acc_before, returnedValid, probedOk>>

\* validate_links, then the accumulation of this attempt's valid links
PQ_ValidateLinks ==
    /\ UNCHANGED <<lcVars, trVars, hostVars>>
    /\ wf = "process_question_with_agents"
    /\ pc = "validate_links"
    /\ lvCalls' = lvCalls + 1
    /\ \E probe \in Probes, exc \in BOOLEAN :
         LET r == validate_links(all_links, probe, exc)
         IN  /\ links_valid' = r[1]
             /\ valid_links' = r[2]
             /\ accumulated_valid_links' = Accumulate(accumulated_valid_links, r[2])
             /\ lvAt' = Logged(lvAt, attempt, IF r[1] THEN "accept" ELSE "reject")
             /\ returnedValid' = returnedValid \cup Range(r[2])
             /\ probedOk' = probedOk \cup
                    (IF exc THEN {} ELSE {l \in Range(all_links) : probe[l] = "200"})
             /\ calls' = Append(calls, IF exc THEN "lv_error"
                                       ELSE IF r[1] THEN "lv_accept" ELSE "lv_reject")
    /\ acc_before' = accumulated_valid_links
    /\ pc' = "decide"
    /\ UNCHANGED <<wf, attempt, max_attempts, char_limit, candidate_answer,
                   clean_answer, all_links, result, earlier, overridden,
                   genCalls, avCalls, genFailed, raised, avAt, accepted>>

\* if not links_valid and not accumulated_valid_links
PQ_NoUsableLinks == ~links_valid /\ accumulated_valid_links = <<>>

\* final_valid_links = accumulated_valid_links.copy(); return True, ...
PQ_Succeed ==
    /\ Return(Success(clean_answer, accumulated_valid_links))
    /\ accumulated_valid_links' = accumulated_valid_links

\* the termination rule
PQ_Decide ==
    /\ UNCHANGED <<lcVars, trVars, hostVars>>
    /\ wf = "process_question_with_agents"
    /\ pc = "decide"
    /\ IF PQ_NoUsableLinks
       THEN Retry /\ accumulated_valid_links' = accumulated_valid_links
       ELSE PQ_Succeed
    /\ accepted' = IF PQ_NoUsableLinks THEN None ELSE accepted
    /\ calls' = Kept(calls)
    /\ UNCHANGED <<wf, max_attempts, char_limit, earlier, overridden,
                   genCalls, avCalls, lvCalls, genFailed, raised, avAt, lvAt,
                   acc_before, returnedValid, probedOk>>

-----------------------------------------------------------------------------
(* QuestionnaireAgent.answer_question, with LinkChecker.validate_links *)

\* LinkChecker._extract_urls
extract_urls(text) == Range(SelectSeq(text, IsUrl))

AgentVerdicts == {"VALID", "INVALID", "failed", "exception"}

\* LinkChecker.validate_links: no URL in the answer passes; otherwise the
\* remote agent decides, and a failed run or an exception is a rejection
LinkChecker_validate_links(answer, verdict) ==
    IF extract_urls(answer) = {} THEN TRUE ELSE verdict = "VALID"

AQ_Start ==
    /\ UNCHANGED <<lcVars, trVars, hostVars>>
    /\ pc \in {"idle", "done"}
    /\ wf' = "answer_question"
    /\ char_limit' = char_limit
    /\ overridden' = FALSE
    /\ EnterLoop(MAX_ATTEMPTS)
    /\ accumulated_valid_links' = <<>>
    /\ DropLocals
    /\ FreshHistory

\* generate_answer raises, returns None or "", or returns a text
AQ_Generate ==
    /\ UNCHANGED <<lcVars, trVars, hostVars>>
    /\ wf = "answer_question"
    /\ pc = "generate"
    /\ genCalls' = genCalls + 1
    /\ \/ /\ genFailed' = TRUE
          /\ raised' = TRUE
          /\ calls' = <<"gen_raise">>
          /\ Return(Failure(MsgError))
       \/ /\ raised' = raised
          /\ \E ans \in GeneratorTexts :
               /\ genFailed' = Falsy(ans)
               /\ calls' = <<IF Falsy(ans) THEN "gen_none" ELSE "gen_text">>
               /\ IF Falsy(ans)
                  THEN Return(Failure(MsgGeneratorFailed))
                  ELSE /\ candidate_answer' = ans
                       /\ pc' = "validate_answer"
                       /\ UNCHANGED <<attempt, result, clean_answer, all_links,
                                      links_valid, valid_links>>
    /\ UNCHANGED <<wf, max_attempts, char_limit, accumulated_valid_links,
                   earlier, overridden, avCalls, lvCalls, avAt, lvAt,
                   acc_before, returnedValid, probedOk, accepted>>

\* validate_answer raises, or returns its verdict
AQ_ValidateAnswer ==
    /\ UNCHANGED <<lcVars, trVars, hostVars>>
    /\ wf = "answer_question"
    /\ pc = "validate_answer"
    /\ avCalls' = avCalls + 1
    /\ \/ /\ raised' = TRUE
          /\ avAt' = Logged(avAt, attempt, "raise")
          /\ calls' = Append(calls, "av_raise")
          /\ accepted' = None
          /\ Return(Failure(MsgError))
       \/ /\ raised' = raised
          /\ \E answer_valid \in BOOLEAN :
               /\ avAt' = Logged(avAt, attempt, IF answer_valid THEN "accept" ELSE "reject")
               /\ accepted' = IF answer_valid THEN candidate_answer ELSE None
               /\ IF ~answer_valid
                  THEN Retry
                  ELSE /\ pc' = "validate_links"
                       /\ UNCHANGED <<attempt, result, localVars>>
               /\ calls' = Kept(Append(calls, IF answer_valid THEN "av_accept"
                                              ELSE "av_reject"))
    /\ UNCHANGED <<wf, max_attempts, char_limit, accumulated_valid_links,
                   earlier, overridden, genCalls, lvCalls, genFailed, lvAt,
                   acc_before, returnedValid, probedOk>>

\* a slip: the test of the link verdict inverted
AQ_LinksRejected_Inverted(ok) == ok

\* if not links_valid
AQ_LinksRejected(ok) == ~ok

\* validate_links raises, or returns its verdict
AQ_ValidateLinks ==
    /\ UNCHANGED <<lcVars, trVars, hostVars>>
    /\ wf = "answer_question"
    /\ pc = "validate_links"
    /\ lvCalls' = lvCalls + 1
    /\ \/ /\ raised' = TRUE
          /\ lvAt' = Logged(lvAt, attempt, "raise")
          /\ calls' = Append(calls, "lv_raise")
          /\ accepted' = None
          /\ Return(Failure(MsgError))
       \/ /\ raised' = raised
          /\ \E verdict \in AgentVerdicts :
               LET ok == LinkChecker_validate_links(candidate_answer, verdict)
               IN  /\ lvAt' = Logged(lvAt, attempt, IF ok THEN "accept" ELSE "reject")
                   /\ accepted' = IF ok THEN accepted ELSE None
                   /\ IF AQ_LinksRejected(ok)
                      THEN Retry
                      ELSE Return(Success(candidate_answer, <<>>))
                   /\ calls' = Kept(Append(calls, IF ok THEN "lv_accept"
                                                  ELSE "lv_reject"))
    /\ UNCHANGED <<wf, max_attempts, char_limit, accumulated_valid_links,
                   earlier, overridden, genCalls, avCalls, genFailed, avAt,
                   acc_before, returnedValid, probedOk>>

-----------------------------------------------------------------------------
(* QuestionnaireAgentUI.validate_links and _execute_link_checker, statement *)
(* by statement: one call after another, each with a list of distinct URLs  *)
(* as the workflows pass it, each probe with whatever outcome it has        *)

LinkUrls == URLS \cup {"u3"}

LinkLists == UNION {Perms(S) : S \in SUBSET LinkUrls}

\* a slip: the test for an empty list left out
NoLinks_Never(links) == FALSE

\* if not links or len(links) == 0
NoLinks(links) == links = <<>>

\* a slip: every answer of the server counts, only a transport error does not
IsValidStatus_AnyResponse(outcome) == outcome # "error"

\* if response.status_code == 200
IsValidStatus(outcome) == outcome = "200"

\* a slip: the loop ends with the first link that is not valid
LoopDone_AtFirstInvalid(i, links, invalid) == i = Len(links) \/ invalid # <<>>

\* for link in links: the loop is over when every link has been taken
LoopDone(i, links, invalid) == i = Len(links)

\* the call, and the first check: there must be at least one URL
LC_Call ==
    /\ lc.pc \in {"idle", "done"}
    /\ \E links \in LinkLists :
         lc' = [pc |-> IF NoLinks(links) THEN "done" ELSE "loop",
                links |-> links,
                i |-> 0,
                valid |-> <<>>,
                invalid |-> <<>>,
                result |-> IF NoLinks(links)
                           THEN <<FALSE, <<>>, MsgNoUrls>> ELSE NoReturn,
                probes |-> <<>>,
                outcomes |-> <<>>]
    /\ UNCHANGED besideLinks

\* one turn of the loop: requests.head(link), then the status test; a
\* transport error is caught inside the loop
LC_Probe ==
    /\ lc.pc = "loop"
    /\ ~LoopDone(lc.i, lc.links, lc.invalid)
    /\ LET link == lc.links[lc.i + 1]
       IN  \E outcome \in ProbeOutcomes :
             lc' = [lc EXCEPT
                      !.probes = Append(@, link),
                      !.outcomes = Append(@, outcome),
                      !.valid = IF IsValidStatus(outcome) THEN Append(@, link) ELSE @,
                      !.invalid = IF IsValidStatus(outcome)
                                  THEN @ ELSE Append(@, <<link, outcome>>),
                      !.i = @ + 1]
    /\ UNCHANGED besideLinks

\* after the loop: success if at least one link is valid
LC_Return ==
    /\ lc.pc = "loop"
    /\ LoopDone(lc.i, lc.links, lc.invalid)
    /\ lc' = [lc EXCEPT
                !.result = IF lc.valid # <<>>
                           THEN <<TRUE, lc.valid,
                                  IF lc.invalid # <<>> THEN MsgSomeValid ELSE MsgAllValid>>
                           ELSE <<FALSE, <<>>, MsgNoneValid>>,
                !.pc = "done"]
    /\ UNCHANGED besideLinks

\* an exception outside the probe (tracing, logging) reaches the handler of
\* validate_links, which returns (False, [], "Error: ...")
LC_Except ==
    /\ lc.pc = "loop"
    /\ lc' = [lc EXCEPT !.result = <<FALSE, <<>>, MsgLinkError>>, !.pc = "done"]
    /\ UNCHANGED besideLinks

LinkNext ==
    \/ LC_Call
    \/ LC_Probe
    \/ LC_Return
    \/ LC_Except

LinkSpec == LinkInit /\ [][LinkNext]_vars

-----------------------------------------------------------------------------
(* The traced methods: process_single_question, generate_answer,           *)
(* validate_answer, validate_links.  Each wraps one call in a span when a  *)
(* tracer is set, and turns an exception of that call into its own failure *)
(* value.  Opening a span and writing a message are taken to return.       *)

TracedMethods ==
    {"process_single_question", "generate_answer", "validate_answer", "validate_links"}

\* what the wrapped call can come to
Responses(fn) ==
    CASE fn = "process_single_question" -> {"success", "failure", "raise"}
      [] fn = "generate_answer" -> {"text", "none", "raise"}
      [] fn = "validate_answer" -> {"valid", "invalid", "raise"}
      [] fn = "validate_links" -> {"some valid", "none valid", "raise"}

\* the except clause of each method
Fallback(fn) ==
    CASE fn = "process_single_question" -> "failure: Error"
      [] fn = "generate_answer" -> "none"
      [] fn = "validate_answer" -> "invalid: Error"
      [] fn = "validate_links" -> "none valid: Error"

\* log_reasoning: the list in headless mode, the text widget otherwise
Sink(headless) == IF headless THEN "cli_output" ELSE "reasoning_text"

\* a slip: the branch with the span does not make the call
InSpan_SkipsCall == "handle"

\* with self.tracer.start_as_current_span(...): return self._execute_...(...)
InSpan == "inner"

\* the method is entered; `if self.tracer:` chooses the branch
TR_Call ==
    /\ tr.pc \in {"idle", "returned"}
    /\ \E fn \in TracedMethods, tracer \in BOOLEAN, headless \in BOOLEAN :
         \E resp \in Responses(fn) :
           tr' = [pc |-> IF tracer THEN "span" ELSE "inner",
                  fn |-> fn,
                  tracer |-> tracer,
                  headless |-> headless,
                  resp |-> resp,
                  ret |-> NoReturn,
                  inner |-> 0,
                  emitted |-> {},
                  prev |-> IF tr.pc = "returned"
                           THEN [fn |-> tr.fn, resp |-> tr.resp, ret |-> tr.ret,
                                 inner |-> tr.inner, tracer |-> tr.tracer,
                                 headless |-> tr.headless]
                           ELSE tr.prev]
    /\ UNCHANGED besideTraces

\* the span is opened and its attributes are set
TR_Span ==
    /\ tr.pc = "span"
    /\ tr' = [tr EXCEPT !.emitted = @ \cup {"span"}, !.pc = InSpan]
    /\ UNCHANGED besideTraces

\* the wrapped call, which logs its reasoning on the way
TR_Inner ==
    /\ tr.pc = "inner"
    /\ tr' = [tr EXCEPT !.inner = @ + 1,
                        !.emitted = @ \cup {Sink(tr.headless)},
                        !.pc = "handle"]
    /\ UNCHANGED besideTraces

\* the value is returned as it is; an exception leaves the span and is
\* caught by the method, which shows a message box only in GUI mode
TR_Return ==
    /\ tr.pc = "handle"
    /\ tr' = [tr EXCEPT
                !.ret = <<IF tr.resp = "raise" THEN Fallback(tr.fn) ELSE tr.resp>>,
                !.emitted = IF tr.fn = "process_single_question" /\ ~tr.headless
                            THEN @ \cup {"root.after"} ELSE @,
                !.pc = "returned"]
    /\ UNCHANGED besideTraces

TraceNext ==
    \/ TR_Call
    \/ TR_Span
    \/ TR_Inner
    \/ TR_Return

TraceSpec == TraceInit /\ [][TraceNext]_vars

-----------------------------------------------------------------------------
(* Two worker threads on one QuestionnaireAgentUI: the Ask button runs     *)
(* _execute_workflow, the import button runs process_question_with_agents  *)
(* for a row.  attempt, max_attempts, accumulated_valid_links and the      *)
(* other locals live in the frame of each call; the agent ids and the log  *)
(* sink are attributes of the shared object.                               *)

\* a slip: the list is an attribute of the shared object
Frame_Shared(t) == "ask"

\* accumulated_valid_links = [] is a local of the call
Frame(t) == t

\* the message a thread's workflow returns when the generator gives no text
GeneratorFailureMsg(t) == IF t = "ask" THEN MsgExhausted ELSE MsgGeneratorFailed

RECURSIVE RunAlone(_, _, _, _, _, _)
\* The outcome of one call run by itself on the responses of `log`: the
\* loop of _execute_workflow as a function.  NoResult while responses are
\* still missing.
RunAlone(log, max, limit, att, acc, failMsg) ==
    IF ~WhileGuard(att, max) THEN Failure(MsgExhausted)
    ELSE IF log = <<>> THEN NoResult
    ELSE IF Falsy(log[1]) THEN Failure(failMsg)
    ELSE LET el == extract_links_and_clean(log[1])
         IN  IF OverLimit(el[1], limit)
             THEN RunAlone(Tail(log), max, limit, att + 1, acc, failMsg)
             ELSE IF Len(log) < 2 THEN NoResult
             ELSE IF log[2] # "VALID"
             THEN RunAlone(SubSeq(log, 3, Len(log)), max, limit, att + 1, acc, failMsg)
             ELSE IF Len(log) < 3 THEN NoResult
             ELSE LET r == validate_links(el[2], [u \in URLS |-> log[3]], FALSE)
                      acc2 == Accumulate(acc, r[2])
                  IN  IF ~r[1] /\ acc2 = <<>>
                      THEN RunAlone(SubSeq(log, 4, Len(log)), max, limit, att + 1,
                                    acc2, failMsg)
                      ELSE Success(el[1], acc2)

\* attempt += 1; continue; and the fall-through once the loop test fails
CW_Retry(c, t) ==
    [c EXCEPT !.attempt[t] = @ + 1,
              !.pc[t] = IF WhileGuard(c.attempt[t] + 1, c.max[t])
                        THEN "generate" ELSE "done",
              !.result[t] = IF WhileGuard(c.attempt[t] + 1, c.max[t])
                            THEN @ ELSE Failure(MsgExhausted)]

\* a slip: process_question_with_agents takes a missing text for a
\* rejected attempt
OnNoText_ImportRetries(c, t) ==
    IF t = "import" THEN CW_Retry(c, t)
    ELSE [c EXCEPT !.pc[t] = "done",
                   !.result[t] = Failure(GeneratorFailureMsg(t))]

\* if not candidate_answer: _execute_workflow breaks and returns after the
\* loop, process_question_with_agents returns at once
OnNoText(c, t) ==
    [c EXCEPT !.pc[t] = "done",
              !.result[t] = Failure(GeneratorFailureMsg(t))]

\* the thread is started with the values of the entry fields; the workflow
\* tests whether the agents exist
CW_Start(t) ==
    /\ cw.pc[t] = "idle"
    /\ \E mr \in ThreadMaxRetries, limit \in CharLimits :
         cw' = [cw EXCEPT !.max[t] = mr,
                          !.limit[t] = limit,
                          !.attempt[t] = 1,
                          !.acc[Frame(t)] = <<>>,
                          !.pc[t] = IF cw.agent_ids THEN "generate" ELSE "create_agents",
                          !.sink_writers = @ \cup {t}]
    /\ UNCHANGED besideThreads

\* create_agents: the three ids of the shared object are assigned
CW_CreateAgents(t) ==
    /\ cw.pc[t] = "create_agents"
    /\ cw' = [cw EXCEPT !.agent_ids = TRUE,
                        !.agents_created = @ + 1,
                        !.pc[t] = "generate"]
    /\ UNCHANGED besideThreads

\* generate_answer, extract_links_and_clean, the combination of the links
CW_Generate(t) ==
    /\ cw.pc[t] = "generate"
    /\ \E ans \in ThreadTexts :
         cw' = IF Falsy(ans)
               THEN OnNoText([cw EXCEPT !.log[t] = Append(@, ans),
                                        !.made[t] = Append(@, "generate_answer")], t)
               ELSE [cw EXCEPT !.log[t] = Append(@, ans),
                               !.made[t] = Append(@, "generate_answer"),
                               !.clean[t] = extract_links_and_clean(ans)[1],
                               !.links[t] = extract_links_and_clean(ans)[2],
                               !.pc[t] = "check_limit"]
    /\ UNCHANGED besideThreads

\* the character limit
CW_CheckLimit(t) ==
    /\ cw.pc[t] = "check_limit"
    /\ cw' = IF OverLimit(cw.clean[t], cw.limit[t])
             THEN CW_Retry(cw, t)
             ELSE [cw EXCEPT !.pc[t] = "validate_answer"]
    /\ UNCHANGED besideThreads

\* validate_answer
CW_ValidateAnswer(t) ==
    /\ cw.pc[t] = "validate_answer"
    /\ \E outcome \in ThreadVerdicts :
         LET answered == [cw EXCEPT !.log[t] = Append(@, outcome),
                                    !.made[t] = Append(@, "validate_answer")]
         IN  cw' = IF outcome # "VALID"
                   THEN CW_Retry(answered, t)
                   ELSE [answered EXCEPT !.pc[t] = "validate_links"]
    /\ UNCHANGED besideThreads

\* validate_links, then the accumulation of this attempt's valid links
CW_ValidateLinks(t) ==
    /\ cw.pc[t] = "validate_links"
    /\ \E outcome \in ThreadProbes :
         LET r == validate_links(cw.links[t], [u \in URLS |-> outcome], FALSE)
         IN  cw' = [cw EXCEPT !.log[t] = Append(@, outcome),
                              !.made[t] = Append(@, "validate_links"),
                              !.lv[t] = r,
                              !.acc[Frame(t)] = Accumulate(@, r[2]),
                              !.pc[t] = "decide"]
    /\ UNCHANGED besideThreads

\* the termination rule
CW_Decide(t) ==
    /\ cw.pc[t] = "decide"
    /\ cw' = IF ~cw.lv[t][1] /\ cw.acc[Frame(t)] = <<>>
             THEN CW_Retry(cw, t)
             ELSE [cw EXCEPT !.pc[t] = "done",
                             !.result[t] = Success(cw.clean[t], cw.acc[Frame(t)])]
    /\ UNCHANGED besideThreads

ThreadNext ==
    \E t \in Threads :
        \/ CW_Start(t)
        \/ CW_CreateAgents(t)
        \/ CW_Generate(t)
        \/ CW_CheckLimit(t)
        \/ CW_ValidateAnswer(t)
        \/ CW_ValidateLinks(t)
        \/ CW_Decide(t)

ThreadSpec == ThreadInit /\ [][ThreadNext]_vars

-----------------------------------------------------------------------------
(* FoundryAgentSession, src/utils/resource_manager.py.  Every user builds  *)
(* the session in the with statement itself, so each session object is     *)
(* entered once.  The client is the environment: a creation or a deletion  *)
(* returns or raises an Exception.  The users are the three agents that    *)
(* QuestionnaireAgent.answer_question, src/main.py, calls one after the    *)
(* other, and the two methods of the web search.                           *)

CallResults == {"ok", "raise"}

\* how the body of the with statement ends
BodyResults == {"normal", "ValueError", "RuntimeError"}

AgentId == <<"agent-1">>
ThreadId == <<"thread-1">>

\* a slip: the thread is never deleted
ThreadCleanupDue_Never(thread_id) == FALSE

\* if self.thread_id:
ThreadCleanupDue(thread_id) == thread_id # None

\* a slip: the agent is never deleted
AgentCleanupDue_Never(agent_id) == FALSE

\* if self.agent_id:
AgentCleanupDue(agent_id) == agent_id # None

\* a slip: __exit__ suppresses the exception of the body
ExitReturn_Suppresses == TRUE

\* return False
ExitReturn == FALSE

\* a slip: a failed thread deletion ends the cleanup
AfterThreadDelete_Propagates(r) == IF r = "raise" THEN "leave" ELSE "cleanup_agent"

\* with suppress(Exception): ... except Exception: logger.warning(...); the
\* cleanup goes on to the agent whatever the deletion did
AfterThreadDelete(r) == "cleanup_agent"

\* how often the session made the client call `op`
CallCount(op) == Len(SelectSeq(fs.calls, LAMBDA c : c[1] = op))

\* the result of the session's client call `op`, "none" when it was not made
CallResult(op) ==
    IF CallCount(op) = 0 THEN "none"
    ELSE SelectSeq(fs.calls, LAMBDA c : c[1] = op)[1][2]

\* name= of the session a method builds
SessionName(caller) ==
    CASE caller = "generate_answer" -> "question-answerer"
      [] caller = "validate_answer" -> "answer-checker"
      [] caller = "validate_links" -> "link-checker"
      [] caller = "search" -> "search-agent"
      [] OTHER -> "content-fetcher"

\* a slip: __enter__ raises without cleaning up
OnEnterFailure_JustRaises == "leave"

\* except Exception: self._cleanup_resources(); raise
OnEnterFailure == "cleanup_thread"

\* attempt += 1; continue; and the return after the loop
AQ_NextAttempt(s) ==
    IF s.attempt + 1 <= MAX_ATTEMPTS
    THEN [s EXCEPT !.attempt = @ + 1, !.caller = "generate_answer", !.pc = "call"]
    ELSE [s EXCEPT !.attempt = @ + 1, !.aq = "exhausted", !.pc = "idle"]

\* answer_question after the method it called has returned: `ok` is a text
\* from the generator or True from a validator; has_urls tells whether
\* LinkChecker.validate_links finds a URL in the answer, without which it
\* returns True before it builds a session
AQ_After(s, ok, has_urls) ==
    CASE s.caller = "generate_answer" ->
            IF ok THEN [s EXCEPT !.caller = "validate_answer", !.pc = "call"]
            ELSE [s EXCEPT !.aq = "generator failed", !.pc = "idle"]
      [] s.caller = "validate_answer" ->
            IF ~ok THEN AQ_NextAttempt(s)
            ELSE IF has_urls
            THEN [s EXCEPT !.caller = "validate_links", !.pc = "call"]
            ELSE [s EXCEPT !.aq = "success", !.pc = "idle"]
      [] OTHER ->
            IF ok THEN [s EXCEPT !.aq = "success", !.pc = "idle"]
            ELSE AQ_NextAttempt(s)

\* answer_question is called, or the web search is
FS_Start ==
    /\ fs.pc = "idle"
    /\ \E m \in {"answer_question", "search", "get_page_content"} :
         fs' = [fs EXCEPT !.pc = "call",
                          !.caller = IF m = "answer_question" THEN "generate_answer"
                                     ELSE m,
                          !.aq = IF m = "answer_question" THEN "running" ELSE "none",
                          !.attempt = 1]
    /\ UNCHANGED besideSessions

\* FoundryAgentSession(client, ...): a new object for the with statement of
\* the method
FS_Construct ==
    /\ fs.pc = "call"
    /\ fs' = [fs EXCEPT !.pc = "constructed",
                        !.name = SessionName(fs.caller),
                        !.agent_id = None,
                        !.thread_id = None,
                        !.exc = None,
                        !.from = "none",
                        !.outcome = NoReturn,
                        !.body = 0,
                        !.calls = <<>>]
    /\ UNCHANGED besideSessions

\* __enter__: self.client.agents.create_agent(**agent_config)
FS_CreateAgent ==
    /\ fs.pc = "constructed"
    /\ \E r \in CallResults :
         fs' = IF r = "ok"
               THEN [fs EXCEPT !.calls = Append(@, <<"create_agent", r>>),
                               !.agent_id = AgentId,
                               !.pending = @ \cup {"agent"},
                               !.open = @ + 1,
                               !.pc = "create_thread"]
               ELSE [fs EXCEPT !.calls = Append(@, <<"create_agent", r>>),
                               !.exc = <<"create_agent">>,
                               !.from = "enter",
                               !.open = @ + 1,
                               !.pc = OnEnterFailure]
    /\ UNCHANGED besideSessions

\* __enter__: self.client.agents.threads.create(**self.thread_config)
FS_CreateThread ==
    /\ fs.pc = "create_thread"
    /\ \E r \in CallResults :
         fs' = IF r = "ok"
               THEN [fs EXCEPT !.calls = Append(@, <<"create_thread", r>>),
                               !.thread_id = ThreadId,
                               !.pending = @ \cup {"thread"},
                               !.pc = "body"]
               ELSE [fs EXCEPT !.calls = Append(@, <<"create_thread", r>>),
                               !.exc = <<"create_thread">>,
                               !.from = "enter",
                               !.pc = OnEnterFailure]
    /\ UNCHANGED besideSessions

\* the body of the with statement, then __exit__ calls _cleanup_resources
FS_Body ==
    /\ fs.pc = "body"
    /\ \E r \in BodyResults :
         fs' = [fs EXCEPT !.body = @ + 1,
                          !.exc = IF r = "normal" THEN None ELSE <<r>>,
                          !.from = "exit",
                          !.pc = "cleanup_thread"]
    /\ UNCHANGED besideSessions

\* _cleanup_resources: the thread first; a failure is logged and swallowed
FS_DeleteThread ==
    /\ fs.pc = "cleanup_thread"
    /\ IF ThreadCleanupDue(fs.thread_id)
       THEN \E r \in CallResults :
               fs' = [fs EXCEPT !.calls = Append(@, <<"delete_thread", r>>),
                                !.pending = @ \ {"thread"},
                                !.pc = AfterThreadDelete(r)]
       ELSE fs' = [fs EXCEPT !.pc = "cleanup_agent"]
    /\ UNCHANGED besideSessions

\* _cleanup_resources: then the agent; a failure is logged and swallowed
FS_DeleteAgent ==
    /\ fs.pc = "cleanup_agent"
    /\ IF AgentCleanupDue(fs.agent_id)
       THEN \E r \in CallResults :
               fs' = [fs EXCEPT !.calls = Append(@, <<"delete_agent", r>>),
                                !.pending = @ \ {"agent"},
                                !.pc = "leave"]
       ELSE fs' = [fs EXCEPT !.pc = "leave"]
    /\ UNCHANGED besideSessions

\* __enter__ re-raises the creation error; __exit__ returns False, so an
\* exception of the body goes on to the caller
FS_Leave ==
    /\ fs.pc = "leave"
    /\ fs' = [fs EXCEPT
                !.outcome = IF fs.from = "enter" THEN <<"raise", fs.exc>>
                            ELSE IF fs.exc # None /\ ~ExitReturn THEN <<"raise", fs.exc>>
                            ELSE <<"normal">>,
                !.open = @ - 1,
                !.pc = "returned"]
    /\ UNCHANGED besideSessions

\* the method returns: it turns an exception of the with statement into
\* None or False (except Exception), else it returns what the agent's run
\* came to; answer_question goes on with that
FS_Return ==
    /\ fs.pc = "returned"
    /\ IF fs.aq = "running"
       THEN \E run_ok \in BOOLEAN, has_urls \in BOOLEAN :
               fs' = AQ_After(fs, fs.outcome = <<"normal">> /\ run_ok, has_urls)
       ELSE fs' = [fs EXCEPT !.pc = "idle"]
    /\ UNCHANGED besideSessions

SessionNext ==
    \/ FS_Start
    \/ FS_Construct
    \/ FS_CreateAgent
    \/ FS_CreateThread
    \/ FS_Body
    \/ FS_DeleteThread
    \/ FS_DeleteAgent
    \/ FS_Leave
    \/ FS_Return

SessionSpec == SessionInit /\ [][SessionNext]_vars

-----------------------------------------------------------------------------
(* The batch drivers: _process_excel_file_internal with                    *)
(* _process_excel_sheet (CLI) and process_excel_file (GUI).  Both classify *)
(* the columns with identify_columns_with_llm_cli and run one workflow per *)
(* row; the workflow returns a tuple and never raises.                     *)

\* the header rows of the sheets
HeaderLists ==
    {<<"Question", "Answer">>, <<"Question", "Response", "Docs">>, <<"Item", "Notes">>}

\* a question cell: empty (NaN), white space only, or a question
Cells == {"nan", "spaces", "question"}

\* what the workflow of a row returns: success, exhaustion, or the failure
\* after a generator that gave no text
RowOutcomes == {"success", "exhausted", "generator failed"}

\* str.upper on the names that occur
Upper(name) ==
    CASE name \in {"none", "NONE"} -> "NONE"
      [] name = "Question" -> "QUESTION"
      [] name = "Answer" -> "ANSWER"
      [] name = "Response" -> "RESPONSE"
      [] name = "Docs" -> "DOCS"
      [] name = "Item" -> "ITEM"
      [] name = "Notes" -> "NOTES"
      [] name = "Total" -> "TOTAL"
      [] OTHER -> name

\* what a line of the response can name for a role: a header, NONE in
\* either case, a name that is no header, or nothing ("" stands for a
\* missing line or an empty name, for which extract_column_name gives None)
NamedColumns(headers) == Range(headers) \cup {"NONE", "none", "Total", ""}

\* the backend raises, gives no assistant message, or answers with the
\* three lines
ClassifierResponses(headers) ==
    {<<"raise">>, <<"no message">>} \cup
    {<<"named", q, a, d>> : q \in NamedColumns(headers), a \in NamedColumns(headers),
                            d \in {"NONE", "Docs"}}

\* one role of identify_columns_with_llm_cli: extract_column_name, "NONE"
\* to None, and a name that is no column of the sheet to None
ResolveColumn(name, headers) ==
    LET extracted == IF name = "" THEN NoColumn ELSE name
        named == IF extracted # NoColumn /\ Upper(extracted) = "NONE"
                 THEN NoColumn ELSE extracted
    IN  IF named # NoColumn /\ named \notin Range(headers) THEN NoColumn ELSE named

\* identify_columns_with_llm_cli: (None, None, None) when the backend raises
\* or gives no message
identify_columns_with_llm_cli(headers, resp) ==
    IF resp[1] # "named" THEN <<NoColumn, NoColumn, NoColumn>>
    ELSE <<ResolveColumn(resp[2], headers), ResolveColumn(resp[3], headers),
           ResolveColumn(resp[4], headers)>>

\* a slip: a sheet is skipped only when both columns are missing
SheetSkipped_NeedsBoth(cols) == cols[1] = NoColumn /\ cols[2] = NoColumn

\* if not question_col or not answer_col
SheetSkipped(cols) == cols[1] = NoColumn \/ cols[2] = NoColumn

\* a slip: a cell of white space counts as a question
BlankQuestion_OnlyNan(cell) == cell = "nan"

\* not (pd.notna(row[question_col]) and str(row[question_col]).strip())
BlankQuestion(cell) == cell = "nan" \/ cell = "spaces"

\* A cell holds nothing (pandas reads NaN), a text or a number.
Empty == <<"nan">>

Text(s) == <<"str", s>>

Number(n) == <<"num", n>>

\* str(value)
Str(v) ==
    CASE v[1] = "num" -> Text(ToString(v[2]))
      [] v[1] = "nan" -> Text("nan")
      [] OTHER -> v

\* pd.notna(value) and str(value).strip()
NotBlank(v) == v # Empty /\ Str(v)[2] \notin {"", " "}

\* the value pandas reads from a question cell
CellValue(cell) ==
    CASE cell = "nan" -> Empty
      [] cell = "spaces" -> Text(" ")
      [] OTHER -> Text(cell)

ColumnIndex(headers, name) == CHOOSE c \in 1..Len(headers) : headers[c] = name

\* what the workbook holds beside the questions: the first row is not
\* filled in, the later rows hold an earlier text or a number
PriorCell(row, c) ==
    CASE row = 1 -> Empty
      [] row % 2 = 0 -> IF c = 2 THEN Number(42) ELSE Text("old")
      [] OTHER -> IF c = 3 THEN Number(42) ELSE Text("old")

\* one row of df as pd.read_excel gives it
RowAsRead(headers, question_col, row, cell) ==
    [h \in Range(headers) |->
        IF h = question_col THEN CellValue(cell)
        ELSE PriorCell(row, ColumnIndex(headers, h))]

\* '\n'.join(links)
RECURSIVE Join(_)
Join(links) ==
    IF links = <<>> THEN ""
    ELSE IF Len(links) = 1 THEN links[1]
    ELSE links[1] \o "\n" \o Join(Tail(links))

\* (success, answer, links) of the workflow of a row
WorkflowReturn(outcome) ==
    IF outcome = "success"
    THEN [success |-> TRUE, answer |-> "answer", links |-> <<"u1", "u2">>]
    ELSE [success |-> FALSE, answer |-> MsgExhausted[1], links |-> <<>>]

\* if docs_col and links:
DocsDue(docs_col, links) == docs_col # NoColumn /\ links # <<>>

\* if success: df.at[idx, answer_col] = answer, then the documentation
\* cell; on failure nothing is assigned
RowAfter(read, cols, ret) ==
    IF ret.success
    THEN LET answered == [read EXCEPT ![cols[2]] = Text(ret.answer)]
         IN  IF DocsDue(cols[3], ret.links)
             THEN [answered EXCEPT ![cols[3]] = Text(Join(ret.links))]
             ELSE answered
    ELSE read

\* the save loop for one row: for a row with a question, the answer cell
\* and the documentation cell of the worksheet are set to str(value) of df
\* when that value is not blank
SavedRow(cols, dfrow, wsrow) ==
    IF cols[1] # NoColumn /\ NotBlank(dfrow[cols[1]])
    THEN [h \in DOMAIN wsrow |->
            IF h = cols[2]
            THEN IF NotBlank(dfrow[h]) THEN Str(dfrow[h]) ELSE wsrow[h]
            ELSE IF h = cols[3] /\ cols[3] # NoColumn
            THEN IF NotBlank(dfrow[h]) THEN Str(dfrow[h]) ELSE wsrow[h]
            ELSE wsrow[h]]
    ELSE wsrow

\* the for loop over the sheets takes the next sheet, or ends
NextSheet(b) ==
    [b EXCEPT !.pc = IF b.sheet < b.total THEN "read_sheet" ELSE "done",
              !.sheet = IF b.sheet < b.total THEN b.sheet + 1 ELSE b.sheet]

\* pd.ExcelFile(input_path): the workbook and its sheet names
BT_Open ==
    /\ bt.pc \in {"idle", "done"}
    /\ \E total \in 1..MaxSheets :
         bt' = [pc |-> "read_sheet", total |-> total, sheet |-> 1,
                headers |-> <<>>, nrows |-> 0,
                cols |-> <<NoColumn, NoColumn, NoColumn>>, row |-> 0,
                attempted |-> 0, answers |-> {}, saved |-> {},
                before |-> <<>>, df |-> <<>>, ws |-> <<>>,
                failed |-> FALSE, events |-> <<>>, classified |-> <<>>]
    /\ UNCHANGED besideBatch

\* df = pd.read_excel(output_path, sheet_name=sheet_name)
BT_ReadSheet ==
    /\ bt.pc = "read_sheet"
    /\ \E headers \in HeaderLists, nrows \in 0..MaxRows :
         bt' = [bt EXCEPT !.headers = headers,
                          !.nrows = nrows,
                          !.cols = <<NoColumn, NoColumn, NoColumn>>,
                          !.row = 0,
                          !.attempted = 0,
                          !.answers = {},
                          !.before = <<>>,
                          !.df = <<>>,
                          !.ws = <<>>,
                          !.failed = FALSE,
                          !.events = <<>>,
                          !.pc = "classify"]
    /\ UNCHANGED besideBatch

\* the columns are identified; the sheet is skipped or its rows are taken
BT_Classify ==
    /\ bt.pc = "classify"
    /\ \E resp \in ClassifierResponses(bt.headers) :
         LET cols == identify_columns_with_llm_cli(bt.headers, resp)
             called == [bt EXCEPT !.cols = cols,
                                  !.failed = (resp[1] # "named"),
                                  !.events = Append(@, <<"classify">>),
                                  !.classified = Append(@, bt.sheet)]
         IN  bt' = IF SheetSkipped(cols)
                   THEN NextSheet(called)
                   ELSE [called EXCEPT !.pc = "rows", !.row = 1]
    /\ UNCHANGED besideBatch

\* one row of df.iterrows(): a question runs the workflow, whose answer is
\* put into df on success
BT_Row ==
    /\ bt.pc = "rows"
    /\ bt.row <= bt.nrows
    /\ \E cell \in Cells :
         LET read == RowAsRead(bt.headers, bt.cols[1], bt.row, cell)
         IN  IF BlankQuestion(cell)
             THEN bt' = [bt EXCEPT !.events = Append(@, <<"blank", bt.row, cell>>),
                                   !.before = Append(@, read),
                                   !.df = Append(@, read),
                                   !.row = @ + 1]
             ELSE \E outcome \in RowOutcomes :
                    bt' = [bt EXCEPT
                             !.events = Append(@, <<"workflow", bt.row, cell, outcome>>),
                             !.attempted = @ + 1,
                             !.answers = IF outcome = "success"
                                         THEN @ \cup {bt.row} ELSE @,
                             !.before = Append(@, read),
                             !.df = Append(@, RowAfter(read, bt.cols,
                                                       WorkflowReturn(outcome))),
                             !.row = @ + 1]
    /\ UNCHANGED besideBatch

\* after the rows: the sheet is written back if a question was attempted
BT_Save ==
    /\ bt.pc = "rows"
    /\ bt.row > bt.nrows
    /\ bt' = NextSheet([bt EXCEPT
                          !.saved = IF bt.attempted > 0
                                    THEN @ \cup {<<bt.sheet, bt.answers>>}
                                    ELSE @,
                          !.ws = IF bt.attempted > 0
                                 THEN [i \in 1..bt.nrows |->
                                         SavedRow(bt.cols, bt.df[i], bt.before[i])]
                                 ELSE bt.before])
    /\ UNCHANGED besideBatch

BatchNext ==
    \/ BT_Open
    \/ BT_ReadSheet
    \/ BT_Classify
    \/ BT_Row
    \/ BT_Save

BatchSpec == BatchInit /\ [][BatchNext]_vars

-----------------------------------------------------------------------------
(* The extractor: extract_links_and_clean on the characters of a text *)

\* A text is a sequence of characters.  A printable ASCII character is the
\* string of itself; the others have a name.
Newline == "LF"
Tab == "TAB"
Backtick == "BACKTICK"
DoubleQuote == "QUOTE"
Backslash == "BACKSLASH"
LeftLenticular == "U+3010"
RightLenticular == "U+3011"
BulletChar == "U+2022"

\* \s and \d of the patterns
Whitespace == {" ", Newline, Tab}

Digits == {"0", "1", "2", "3", "4", "5", "6", "7", "8", "9"}

UpperCase == <<"A", "B", "C", "D", "E", "F", "G", "H", "I", "J", "K", "L", "M",
        "N", "O", "P", "Q", "R", "S", "T", "U", "V", "W", "X", "Y", "Z">>

LowerCase == <<"a", "b", "c", "d", "e", "f", "g", "h", "i", "j", "k", "l", "m",
        "n", "o", "p", "q", "r", "s", "t", "u", "v", "w", "x", "y", "z">>

\* re.IGNORECASE compares letters without their case.
Lower(c) ==
    IF \E k \in 1..Len(UpperCase) : UpperCase[k] = c
    THEN LowerCase[CHOOSE k \in 1..Len(UpperCase) : UpperCase[k] = c]
    ELSE c

Least(S) == CHOOSE x \in S : \A y \in S : x <= y

Greatest(S) == CHOOSE x \in S : \A y \in S : x >= y

UrlStop_AlsoPeriod ==
    Whitespace \cup {"<", ">", DoubleQuote, "{", "}", "|", Backslash, "^",
                     Backtick, "[", "]", "."}

\* The characters url_pattern excludes from a URL: [^\s<>"{}|\\^`\[\]]
UrlStop ==
    Whitespace \cup {"<", ">", DoubleQuote, "{", "}", "|", Backslash, "^",
                     Backtick, "[", "]"}

\* The end of the longest run of characters of S that starts at i (i - 1
\* when there is none): a greedy C* at position i.
RunIn(t, i, S) ==
    LET stops == {j \in i..Len(t) : t[j] \notin S}
    IN  IF i > Len(t) THEN i - 1
        ELSE IF stops = {} THEN Len(t) ELSE Least(stops) - 1

\* The same for the characters outside S: a greedy [^...]* at position i.
RunNotIn(t, i, S) ==
    LET stops == {j \in i..Len(t) : t[j] \in S}
    IN  IF i > Len(t) THEN i - 1
        ELSE IF stops = {} THEN Len(t) ELSE Least(stops) - 1

\* The literal lit stands at position i of t.
HasAt(t, i, lit) ==
    /\ i >= 1
    /\ i + Len(lit) - 1 <= Len(t)
    /\ \A k \in 1..Len(lit) : t[i + k - 1] = lit[k]

HasAtIgnoreCase(t, i, lit) ==
    /\ i >= 1
    /\ i + Len(lit) - 1 <= Len(t)
    /\ \A k \in 1..Len(lit) : Lower(t[i + k - 1]) = Lower(lit[k])

\* ^ under re.MULTILINE
AtLineStart(t, i) == i = 1 \/ t[i - 1] = Newline

\* Every matcher gives the position of the last character of the match
\* that starts at i, or 0 when the pattern does not match there.  No
\* pattern of the function matches the empty string.

\* https?://[^\s<>"{}|\\^`\[\]]+
UrlEnd(t, i) ==
    LET body == IF HasAt(t, i, <<"h", "t", "t", "p", "s", ":", "/",
        "/">>) THEN i + 8
                ELSE IF HasAt(t, i, <<"h", "t", "t", "p", ":", "/",
        "/">>) THEN i + 7
                ELSE 0
        e == RunNotIn(t, body, UrlStop)
    IN  IF body = 0 \/ e < body THEN 0 ELSE e

\* \[\d+\]  and  \(\d+\)
NumberedMarkEnd(t, i, open, close) ==
    LET d == RunIn(t, i + 1, Digits)
    IN  IF t[i] = open /\ d >= i + 1 /\ d + 1 <= Len(t) /\ t[d + 1] = close
        THEN d + 1 ELSE 0

\* lenticular brackets with anything but the closing one inside
LenticularEnd(t, i) ==
    LET e == RunNotIn(t, i + 1, {RightLenticular})
    IN  IF t[i] = LeftLenticular /\ e + 1 <= Len(t) THEN e + 1 ELSE 0

\* \[\d+:\d+[^]]*\]
FileCitationEnd(t, i) ==
    LET d1 == RunIn(t, i + 1, Digits)
        d2 == RunIn(t, d1 + 2, Digits)
        e  == RunNotIn(t, d2 + 1, {"]"})
    IN  IF /\ t[i] = "["
           /\ d1 >= i + 1
           /\ HasAt(t, d1 + 1, <<":">>)
           /\ d2 >= d1 + 2
           /\ e + 1 <= Len(t)
        THEN e + 1 ELSE 0

\* The positions where the closing delimiter of D(.*?)D can stand: the dot
\* does not match a newline.
Closers(t, i, D) ==
    {j \in (i + Len(D))..Len(t) :
        /\ HasAt(t, j, D)
        /\ \A k \in (i + Len(D))..(j - 1) : t[k] # Newline}

\* \*\*(.*?)\*\*  and  \*(.*?)\*  and the same between backticks
DelimitedEnd(t, i, D) ==
    IF HasAt(t, i, D) /\ Closers(t, i, D) # {}
    THEN Least(Closers(t, i, D)) + Len(D) - 1 ELSE 0

\* #{1,6}\s*
HeaderEnd(t, i) ==
    LET h == RunIn(t, i, {"#"})
    IN  IF t[i] = "#"
        THEN RunIn(t, (IF h > i + 5 THEN i + 5 ELSE h) + 1, Whitespace)
        ELSE 0

\* ^\d+\.\s*\*\*[^*]*\*\*:\s*
NumberedBoldEnd(t, i) ==
    LET d == RunIn(t, i, Digits)
        s == RunIn(t, d + 2, Whitespace)
        b == RunNotIn(t, s + 3, {"*"})
    IN  IF /\ AtLineStart(t, i)
           /\ d >= i
           /\ HasAt(t, d + 1, <<".">>)
           /\ HasAt(t, s + 1, <<"*", "*">>)
           /\ HasAt(t, b + 1, <<"*", "*", ":">>)
        THEN RunIn(t, b + 4, Whitespace) ELSE 0

\* ^\d+\.\s*
NumberedEnd(t, i) ==
    LET d == RunIn(t, i, Digits)
    IN  IF AtLineStart(t, i) /\ d >= i /\ HasAt(t, d + 1, <<".">>)
        THEN RunIn(t, d + 2, Whitespace) ELSE 0

\* ^\s*[-(bullet)]\s*
BulletEnd(t, i) ==
    LET s == RunIn(t, i, Whitespace)
    IN  IF /\ AtLineStart(t, i)
           /\ s + 1 <= Len(t)
           /\ t[s + 1] \in {"-", BulletChar}
        THEN RunIn(t, s + 2, Whitespace) ELSE 0

\* The closing phrases, in the order of the code.  A phrase is
\* head opt? \s* tail, where the \s* is there when gap is TRUE.
ClosingPhrases == <<
    [head |-> <<"R", "e", "f", "e", "r", "e", "n", "c", "e">>, opt |-> <<"s">>,
        gap |-> FALSE, tail |-> <<":">>],
    [head |-> <<"F", "o", "r", " ", "m", "o", "r", "e", " ", "i", "n", "f",
        "o", "r", "m", "a", "t", "i", "o", "n">>, opt |-> <<",">>,
        gap |-> TRUE, tail |-> <<"s", "e", "e", ":">>],
    [head |-> <<"F", "o", "r", " ", "m", "o", "r", "e", " ", "i", "n", "f",
        "o", "r", "m", "a", "t", "i", "o", "n">>, opt |-> <<",">>,
        gap |-> TRUE, tail |-> <<"v", "i", "s", "i", "t", ":">>],
    [head |-> <<"F", "o", "r", " ", "m", "o", "r", "e", " ", "d", "e", "t",
        "a", "i", "l", "s">>, opt |-> <<",">>, gap |-> TRUE, tail |-> <<"s",
        "e", "e", ":">>],
    [head |-> <<"L", "e", "a", "r", "n", " ", "m", "o", "r", "e", ":">>,
        opt |-> <<>>, gap |-> FALSE, tail |-> <<>>],
    [head |-> <<"L", "e", "a", "r", "n", " ", "m", "o", "r", "e", " ", "a",
        "t", ":">>, opt |-> <<>>, gap |-> FALSE, tail |-> <<>>],
    [head |-> <<"M", "o", "r", "e", " ", "i", "n", "f", "o", "r", "m", "a",
        "t", "i", "o", "n", ":">>, opt |-> <<>>, gap |-> FALSE,
        tail |-> <<>>],
    [head |-> <<"A", "d", "d", "i", "t", "i", "o", "n", "a", "l", " ", "r",
        "e", "s", "o", "u", "r", "c", "e", "s", ":">>, opt |-> <<>>,
        gap |-> FALSE, tail |-> <<>>] >>

\* \s*PHRASE\s*$ under re.IGNORECASE: the phrase, the white space before it
\* and nothing but white space after it up to the end of the text.
ClosingEnd(t, i, phrase) ==
    LET s == RunIn(t, i, Whitespace)
        h == s + Len(phrase.head)
        o == IF Len(phrase.opt) > 0 /\ HasAtIgnoreCase(t, h + 1, phrase.opt)
             THEN h + Len(phrase.opt) ELSE h
        g == IF phrase.gap THEN RunIn(t, o + 1, Whitespace) ELSE o
        e == g + Len(phrase.tail)
    IN  IF /\ HasAtIgnoreCase(t, s + 1, phrase.head)
           /\ HasAtIgnoreCase(t, g + 1, phrase.tail)
           /\ RunIn(t, e + 1, Whitespace) = Len(t)
        THEN Len(t) ELSE 0

\* \n\s*\n: from a newline to the last newline of the white space after it
ParagraphEnd(t, i) ==
    LET later == {j \in (i + 1)..RunIn(t, i + 1, Whitespace) : t[j] = Newline}
    IN  IF t[i] = Newline /\ later # {} THEN Greatest(later) ELSE 0

\* \s+
WhitespaceEnd(t, i) == IF t[i] \in Whitespace THEN RunIn(t, i, Whitespace) ELSE 0

\* The patterns of the function after url_pattern, in the order of the code.
CleanPatterns ==
    <<[kind |-> "citation"], [kind |-> "lenticular"], [kind |-> "parenthesis"],
      [kind |-> "file_citation"],
      [kind |-> "delimited", arg |-> <<"*", "*">>],
      [kind |-> "delimited", arg |-> <<"*">>],
      [kind |-> "delimited", arg |-> <<Backtick>>],
      [kind |-> "header"], [kind |-> "numbered_bold"], [kind |-> "numbered"],
      [kind |-> "bullet"]>>
    \o [k \in 1..Len(ClosingPhrases) |-> [kind |-> "closing", arg |-> ClosingPhrases[k]]]
    \o <<[kind |-> "paragraph"], [kind |-> "whitespace"]>>

MatchEnd(pattern, t, i) ==
    CASE pattern.kind = "url" -> UrlEnd(t, i)
      [] pattern.kind = "citation" -> NumberedMarkEnd(t, i, "[", "]")
      [] pattern.kind = "lenticular" -> LenticularEnd(t, i)
      [] pattern.kind = "parenthesis" -> NumberedMarkEnd(t, i, "(", ")")
      [] pattern.kind = "file_citation" -> FileCitationEnd(t, i)
      [] pattern.kind = "delimited" -> DelimitedEnd(t, i, pattern.arg)
      [] pattern.kind = "header" -> HeaderEnd(t, i)
      [] pattern.kind = "numbered_bold" -> NumberedBoldEnd(t, i)
      [] pattern.kind = "numbered" -> NumberedEnd(t, i)
      [] pattern.kind = "bullet" -> BulletEnd(t, i)
      [] pattern.kind = "closing" -> ClosingEnd(t, i, pattern.arg)
      [] pattern.kind = "paragraph" -> ParagraphEnd(t, i)
      [] pattern.kind = "whitespace" -> WhitespaceEnd(t, i)

\* What re.sub puts in the place of the match t[i..e].
Replacement(pattern, t, i, e) ==
    CASE pattern.kind = "delimited" ->
            SubSeq(t, i + Len(pattern.arg), e - Len(pattern.arg))
      [] pattern.kind \in {"paragraph", "whitespace"} -> <<" ">>
      [] OTHER -> <<>>

\* re.sub(pattern, replacement, t): the matches are looked for from left to
\* right in t itself, each after the end of the one before.
RECURSIVE Substitute(_, _, _)
Substitute(pattern, t, i) ==
    LET e == MatchEnd(pattern, t, i)
    IN  IF i > Len(t) THEN <<>>
        ELSE IF e = 0 THEN <<t[i]>> \o Substitute(pattern, t, i + 1)
             ELSE Replacement(pattern, t, i, e) \o Substitute(pattern, t, e + 1)

\* re.findall(url_pattern, t)
RECURSIVE FindAllUrls(_, _)
FindAllUrls(t, i) ==
    LET e == UrlEnd(t, i)
    IN  IF i > Len(t) THEN <<>>
        ELSE IF e = 0 THEN FindAllUrls(t, i + 1)
             ELSE <<SubSeq(t, i, e)>> \o FindAllUrls(t, e + 1)

\* the substitutions after the first, one after the other
RECURSIVE CleanFrom(_, _)
CleanFrom(t, k) ==
    IF k > Len(CleanPatterns) THEN t
    ELSE CleanFrom(Substitute(CleanPatterns[k], t, 1), k + 1)

\* str.strip()
Strip(t) ==
    LET kept == {j \in 1..Len(t) : t[j] \notin Whitespace}
    IN  IF kept = {} THEN <<>> ELSE SubSeq(t, Least(kept), Greatest(kept))

\* extract_links_and_clean on characters: <<clean_text, urls>>
extract_links_and_clean_chars(text) ==
    <<Strip(CleanFrom(Substitute([kind |-> "url"], text, 1), 1)),
      FindAllUrls(text, 1)>>

\* The pieces the texts given to the extractor are made of.
Fragments ==
    {<<"x">>, <<" ">>, <<Newline>>, <<"h", "t", "t", "p">>, <<":", "/", "/",
        "a", ".">>, <<"[", "1", "]">>, <<"(", "1", ")">>,
     <<"1", ".", " ">>, <<"-", " ">>, <<"*">>, <<"#", " ">>, <<Backtick>>,
        <<"[", "1", ":", "2", "]">>, <<"R", "e", "f", "e", "r", "e", "n", "c",
        "e", "s", ":">>,
     <<LeftLenticular, "1", RightLenticular>>}

RECURSIVE Flatten(_)
Flatten(pieces) ==
    IF pieces = <<>> THEN <<>> ELSE Head(pieces) \o Flatten(Tail(pieces))

ExampleText == <<"A", "I", " ", "i", "s", " ", "u", "s", "e", "f", "u", "l",
        " ", "[", "1", "]", ".", " ", "S", "e", "e", " ", "h", "t", "t", "p",
        "s", ":", "/", "/", "e", "x", "a", "m", "p", "l", "e", ".", "c", "o",
        "m", "/", "d", "o", "c", ".">>

ExtractorTexts ==
    {Flatten(pieces) :
        pieces \in UNION {[1..n -> Fragments] : n \in 0..MaxFragments}}
    \cup {ExampleText}

\* A caller has a text.
EX_Pick ==
    /\ ex.pc = "idle"
    /\ \E text \in ExtractorTexts : ex' = [ex EXCEPT !.text = text, !.pc = "picked"]
    /\ UNCHANGED besideExtractor

\* clean_text, urls = extract_links_and_clean(text)
EX_Extract ==
    /\ ex.pc = "picked"
    /\ LET returned == extract_links_and_clean_chars(ex.text)
       IN  ex' = [ex EXCEPT !.clean = returned[1], !.urls = returned[2],
                            !.pc = "extracted"]
    /\ UNCHANGED besideExtractor

\* The function is given its own clean_text.
EX_Again ==
    /\ ex.pc = "extracted"
    /\ LET returned == extract_links_and_clean_chars(ex.clean)
       IN  ex' = [ex EXCEPT !.clean2 = returned[1], !.urls2 = returned[2],
                            !.pc = "again"]
    /\ UNCHANGED besideExtractor

ExtractNext ==
    \/ EX_Pick
    \/ EX_Extract
    \/ EX_Again

ExtractSpec == ExtractInit /\ [][ExtractNext]_vars

-----------------------------------------------------------------------------
(* The program *)

Next ==
    \/ EW_Start
    \/ EW_Generate
    \/ EW_CheckLimit
    \/ EW_ValidateAnswer
    \/ EW_ValidateLinks
    \/ EW_Decide
    \/ PQ_Start
    \/ PQ_Generate
    \/ PQ_CheckLimit
    \/ PQ_ValidateAnswer
    \/ PQ_ValidateLinks
    \/ PQ_Decide
    \/ AQ_Start
    \/ AQ_Generate
    \/ AQ_ValidateAnswer
    \/ AQ_ValidateLinks

Spec == Init /\ [][Next]_vars

\* Every call of a collaborator returns, so a workflow that can take a step
\* takes it.
FairSpec == Spec /\ WF_vars(Next)

-----------------------------------------------------------------------------
(* Properties *)

Running == pc \notin {"idle", "done"}

Failed == pc = "done" /\ ~result.success

Succeeded == pc = "done" /\ result.success

\* C1: a generator call that gives no text (None, an empty text, or an
\* exception) ends the run at once with a failure: no later attempt follows,
\* every attempt so far made one generator call, and when the first call
\* already fails the run has made exactly one generator call and no call of
\* the answer validator or the link validator.
C1_GeneratorFailureStops ==
    genFailed =>
        /\ pc = "done"
        /\ ~result.success
        /\ genCalls = attempt
        /\ (attempt = 1 => genCalls = 1 /\ avCalls = 0 /\ lvCalls = 0)

C1_Witness ==
    /\ wf = "execute_workflow"
    /\ Failed
    /\ genFailed
    /\ genCalls = 1
    /\ avCalls = 0
    /\ lvCalls = 0

\* C2: for max_attempts >= 1, a run that fails although no generator call
\* failed and no collaborator raised (so every attempt was rejected) has made
\* exactly max_attempts generator calls, has used up every attempt, and
\* returns the exhausted-attempts failure.
C2_ExhaustionAfterMaxAttempts ==
    (Failed /\ ~genFailed /\ ~raised /\ max_attempts >= 1) =>
        /\ genCalls = max_attempts
        /\ attempt = max_attempts + 1
        /\ result = Failure(MsgExhausted)

C2_Witness ==
    /\ Failed
    /\ ~genFailed
    /\ ~raised
    /\ max_attempts = 1
    /\ avAt[1] = "reject"
    /\ genCalls = 1
    /\ result = Failure(MsgExhausted)

\* C3: when the answer validator rejects attempt 1 and accepts attempt 2 and
\* the link validator does not reject attempt 2, the run is in attempt 2 with
\* exactly 2 generator calls and 2 answer-validator calls, at most 1
\* link-validator call, and once it has returned it returned success after
\* exactly 1 link-validator call.
C3_RejectThenAccept ==
    (avAt[1] = "reject" /\ avAt[2] = "accept" /\ lvAt[2] \notin {"reject", "raise"}) =>
        /\ attempt = 2
        /\ genCalls = 2
        /\ avCalls = 2
        /\ lvCalls <= 1
        /\ (lvAt[2] = "accept" => lvCalls = 1)
        /\ (pc = "done" => result.success /\ lvCalls = 1)

C3_Witness ==
    /\ Succeeded
    /\ avAt[1] = "reject"
    /\ avAt[2] = "accept"
    /\ lvAt[2] = "accept"
    /\ genCalls = 2
    /\ avCalls = 2
    /\ lvCalls = 1
    /\ (wf \in UiWorkflows => Len(result.links) = 1)

\* C4: every run that has started returns, a run with a positive max_attempts
\* never makes more than max_attempts generator calls, and max_attempts is 10
\* whenever the caller passed no value of its own.
C4_TerminatesWithinBudget ==
    /\ [](max_attempts >= 1 => genCalls <= max_attempts)
    /\ [](~overridden => max_attempts = 10)
    /\ (Running ~> pc = "done")

C4_Witness ==
    /\ pc = "done"
    /\ ~overridden
    /\ genCalls = 10
    /\ ~result.success

\* C5: the step that follows link validation returns success exactly when
\* this attempt's link validation returned at least one valid URL or the
\* accumulator held one before it; otherwise the attempt is rejected, the
\* attempt counter goes up by one and nothing is returned as a success.
C5_TerminationRule ==
    [][(wf \in UiWorkflows /\ pc = "decide") =>
          IF valid_links # <<>> \/ acc_before # <<>>
          THEN pc' = "done" /\ result'.success /\ attempt' = attempt
          ELSE attempt' = attempt + 1 /\ ~result'.success]_vars

C5_Witness ==
    /\ wf \in UiWorkflows
    /\ Succeeded
    /\ attempt = 2
    /\ lvAt[1] = "reject"
    /\ lvCalls = 2

\* C6: with the answer validator accepting attempts 1 and 2 and the link
\* validator returning no valid link in attempt 1 and some in attempt 2, the
\* run succeeds in attempt 2; and every successful run returns, without
\* duplicates, exactly the URLs that the link validations of the run returned
\* as valid.
C6_ReturnsUnionOfValidSubsets ==
    /\ (wf \in UiWorkflows /\ avAt[1] = "accept" /\ lvAt[1] = "reject"
            /\ avAt[2] = "accept" /\ lvAt[2] = "accept") =>
          /\ attempt = 2
          /\ (pc = "done" => result.success)
    /\ (wf \in UiWorkflows /\ Succeeded) =>
          /\ Range(result.links) = returnedValid
          /\ NoDup(result.links)

C6_Witness ==
    /\ wf \in UiWorkflows
    /\ Succeeded
    /\ avAt[1] = "accept"
    /\ lvAt[1] = "reject"
    /\ avAt[2] = "accept"
    /\ lvAt[2] = "accept"
    /\ Len(result.links) = 2

\* C7: a URL validated in an earlier attempt reaches the final list of a
\* later attempt only if the run goes on after an attempt whose link
\* validation returned a valid URL.  Stated for the step after link
\* validation: when this attempt's link validation returned a valid URL and
\* attempts remain, the run can move on to a later attempt.
C7_LaterAttemptAfterValidLink ==
    (wf \in UiWorkflows /\ pc = "decide" /\ valid_links # <<>>
        /\ attempt < max_attempts) =>
        ENABLED (Next /\ attempt' = attempt + 1)

\* C7, what the code does instead: an attempt starts, generates, checks the
\* limit, validates the answer and calls the link validator with an empty
\* accumulator, and a successful run returns only URLs that the link
\* validation of its final attempt returned.
C7_NothingToInherit ==
    /\ (wf \in UiWorkflows
            /\ pc \in {"generate", "check_limit", "validate_answer", "validate_links"}) =>
          accumulated_valid_links = <<>>
    /\ (wf \in UiWorkflows /\ pc = "decide") =>
          /\ acc_before = <<>>
          /\ accumulated_valid_links = valid_links

\* C8: a step of a run never removes a URL from the accumulator, and the
\* accumulator never holds a URL twice.
C8_AccumulatorGrows ==
    /\ [][Running => Range(accumulated_valid_links) \subseteq
                         Range(accumulated_valid_links')]_vars
    /\ [](NoDup(accumulated_valid_links))

C8_Witness ==
    /\ wf \in UiWorkflows
    /\ pc = "decide"
    /\ attempt = 2
    /\ Len(accumulated_valid_links) = 2

\* C9: a run starts with an empty accumulator whatever the questions before
\* it left behind, and every link a run returns got HTTP 200 from a probe
\* made in that run.
C9_AccumulatorPerQuestion ==
    /\ (wf \in UiWorkflows /\ Running /\ genCalls = 0) =>
          accumulated_valid_links = <<>>
    /\ (wf \in UiWorkflows /\ Succeeded) =>
          Range(result.links) \subseteq probedOk

C9_Witness ==
    /\ wf \in UiWorkflows
    /\ earlier
    /\ Succeeded
    /\ result.links # <<>>
    /\ Range(result.links) # URLS

\* C10: when the clean text is longer than char_limit, the step that tests
\* the limit adds exactly one to the attempt counter, calls neither
\* validator, leaves the accumulator as it is, and goes on to the next
\* generator call, or to the exhausted-attempts failure when that was the
\* last attempt.
C10_OverLimitRejected ==
    [][(wf \in UiWorkflows /\ pc = "check_limit" /\ Len(clean_answer) > char_limit) =>
          /\ attempt' = attempt + 1
          /\ avCalls' = avCalls
          /\ lvCalls' = lvCalls
          /\ accumulated_valid_links' = accumulated_valid_links
          /\ IF attempt < max_attempts
             THEN pc' = "generate"
             ELSE pc' = "done" /\ result' = Failure(MsgExhausted)]_vars

C10_Witness ==
    /\ wf \in UiWorkflows
    /\ pc = "generate"
    /\ attempt = 2
    /\ genCalls = 1
    /\ avCalls = 0
    /\ lvCalls = 0

\* the traces one attempt can leave: a generator call, then the limit test
\* or the answer validator, then the link validator
AttemptTraces ==
    {<<>>, <<"gen_text">>, <<"gen_none">>, <<"gen_raise">>, <<"gen_text", "limit">>}
    \cup {<<"gen_text", av>> : av \in {"av_accept", "av_reject", "av_error", "av_raise"}}
    \cup {<<"gen_text", "av_accept", lv>> :
              lv \in {"lv_accept", "lv_reject", "lv_error", "lv_raise"}}

\* C11: an attempt calls the generator, then the answer validator, then the
\* link validator, each at most once: the answer validator is called only
\* when this attempt's generator call returned a text and nothing else was
\* called since, the link validator only when this attempt's answer
\* validator accepted, the generator only at the start of an attempt, and
\* the attempt counter goes up only by a rejection of the running attempt,
\* never after a failed generator call.
C11_StagesOrderedAndGated ==
    /\ [](calls \in AttemptTraces)
    /\ [](pc = "generate" => calls = <<>> /\ genCalls = attempt - 1)
    /\ []((Running /\ pc # "generate") => genCalls = attempt)
    /\ [][genCalls' = genCalls + 1 => pc = "generate" /\ calls = <<>>]_vars
    /\ [][avCalls' = avCalls + 1 => calls = <<"gen_text">>]_vars
    /\ [][lvCalls' = lvCalls + 1 => calls = <<"gen_text", "av_accept">>]_vars
    /\ [][attempt' = attempt + 1 =>
            /\ ~genFailed'
            /\ \/ pc \in {"check_limit", "validate_answer"} /\ calls = <<"gen_text">>
               \/ pc = "validate_links" /\ calls = <<"gen_text", "av_accept">>
               \/ pc = "decide" /\ Last(calls) \in {"lv_reject", "lv_error"}]_vars

C11_Witness ==
    /\ Succeeded
    /\ attempt = 2
    /\ calls = <<"gen_text", "av_accept", "lv_accept">>
    /\ genCalls = 2
    /\ avCalls = 1
    /\ lvCalls = 1

\* C12: once a collaborator call has ended in an exception, the next step of
\* the run returns a failure: the attempt counter stays as it is and no
\* generator call follows.
C12_CollaboratorErrorIsTerminal ==
    [][(Running /\ calls # <<>> /\ Last(calls) \in CollaboratorErrors) =>
          /\ pc' = "done"
          /\ ~result'.success
          /\ attempt' = attempt]_vars

\* C12, what the code does instead: in _execute_workflow and
\* process_question_with_agents an exception of the link validation is a
\* rejection like any other, so the run goes on with the next attempt while
\* attempts remain, and fails as exhausted otherwise; only answer_question
\* returns at once, for an exception that its collaborator object lets out.
C12_ErrorIsRejection ==
    /\ [][(wf \in UiWorkflows /\ pc = "decide" /\ Last(calls) = "lv_error") =>
            /\ attempt' = attempt + 1
            /\ IF attempt < max_attempts
               THEN pc' = "generate"
               ELSE pc' = "done" /\ result' = Failure(MsgExhausted)]_vars
    /\ []((wf = "answer_question" /\ calls # <<>>
             /\ Last(calls) \in {"av_raise", "lv_raise"}) =>
            pc = "done" /\ result = Failure(MsgError))

\* C13: a run that ended because the generator gave no text returns a failure
\* that is not the exhausted-attempts failure.
C13_GeneratorFailureDistinguishable ==
    (pc = "done" /\ genFailed) =>
        ~result.success /\ result.answer # MsgExhausted

\* C13, what the code does instead: _execute_workflow returns the
\* exhausted-attempts message after a generator failure; the two other
\* workflows return a message of their own.
C13_SameOutcomeInExecuteWorkflow ==
    (pc = "done" /\ genFailed) =>
        IF wf = "execute_workflow"
        THEN result = Failure(MsgExhausted)
        ELSE result \in {Failure(MsgGeneratorFailed), Failure(MsgError)}

FailureMessages == {MsgExhausted, MsgGeneratorFailed, MsgError}

\* C14: what a run returns is either a success with the answer text and, in
\* the UI workflows, the accumulated non-empty link list, or a failure with
\* one of the failure messages and an empty link list; while the run is
\* going on, rejections included, nothing has been handed to the caller.
C14_SuccessOrSingleFailure ==
    /\ pc = "done" =>
          \/ /\ result.success
             /\ result.answer \in Answers
             /\ wf \in UiWorkflows =>
                   result.links # <<>> /\ result.links = accumulated_valid_links
          \/ /\ ~result.success
             /\ result.answer \in FailureMessages
             /\ result.links = <<>>
    /\ Running => result = NoResult

C14_Witness ==
    /\ Failed
    /\ attempt = 3
    /\ calls = <<"gen_text", "av_reject">>
    /\ result = Failure(MsgExhausted)

\* C15: a successful run returns the text that the answer validator accepted
\* in the attempt that succeeded; a text is recorded as accepted only while
\* the attempt that got it accepted is the current one; and in the UI
\* workflows the returned text is no longer than char_limit.
C15_ReturnsAcceptedText ==
    /\ Succeeded =>
          /\ calls = <<"gen_text", "av_accept", "lv_accept">>
          /\ accepted # None
          /\ result.answer = accepted
          /\ wf \in UiWorkflows => Len(result.answer) <= char_limit
    /\ accepted # None => Len(calls) >= 2 /\ calls[2] = "av_accept"

C15_Witness ==
    /\ wf = "execute_workflow"
    /\ Succeeded
    /\ attempt = 2
    /\ avAt[1] = "reject"
    /\ accepted = <<"w">>
    /\ result.answer = <<"w">>

\* C17: answer_question never returns success for an answer without a URL.
C17_NoSuccessWithoutUrl ==
    (wf = "answer_question" /\ Succeeded) => extract_urls(result.answer) # {}

\* C17, what the code does instead: the link check passes an answer without
\* a URL whatever the agent would have said, so such an answer that the
\* answer checker accepted is returned as a success.
C17_UrlFreeAnswerPasses ==
    [][(wf = "answer_question" /\ pc = "validate_links" /\ ~raised'
            /\ extract_urls(candidate_answer) = {}) =>
          pc' = "done" /\ result' = Success(candidate_answer, <<>>)]_vars

\* the position of a URL in a list of distinct URLs
Pos(links, u) == CHOOSE i \in 1..Len(links) : links[i] = u

\* the probe results of a finished call as a function of the URL
ProbeOf(links, outcomes) ==
    [u \in LinkUrls |-> IF u \in Range(links) THEN outcomes[Pos(links, u)] ELSE "error"]

Completed == lc.pc = "done" /\ lc.result[3] # MsgLinkError

C18_ValidSubsetIsThe200s ==
    (Completed /\ lc.links # <<>>) =>
        LET good == {i \in 1..Len(lc.links) : lc.outcomes[i] = "200"}
            subset == lc.result[2]
        IN  /\ Len(lc.outcomes) = Len(lc.links)
            /\ lc.result[1] = (good # {})
            /\ Len(subset) = Cardinality(good)
            /\ Range(subset) = {lc.links[i] : i \in good}
            /\ \A j, k \in 1..Len(subset) :
                  j < k => Pos(lc.links, subset[j]) < Pos(lc.links, subset[k])
            /\ execute_link_checker(lc.links, ProbeOf(lc.links, lc.outcomes))
                  = <<lc.result[1], subset>>

C18_Witness ==
    /\ Completed
    /\ lc.links = <<"u1", "u2", "u3">>
    /\ lc.outcomes = <<"404", "200", "error">>
    /\ lc.result = <<TRUE, <<"u2">>, MsgSomeValid>>

\* C19: the probes made so far are the first links of the input, in order
\* and once each; every probe that did not give 200 is recorded with its
\* outcome and leaves the loop running; a call that ran to its end has
\* probed every link; and the call always returns a tuple.
C19_EveryLinkProbedOnce ==
    /\ [](lc.probes = SubSeq(lc.links, 1, lc.i))
    /\ [](Len(lc.outcomes) = lc.i /\ Len(lc.valid) + Len(lc.invalid) = lc.i)
    /\ [](\A k \in 1..Len(lc.invalid) :
             /\ lc.invalid[k][2] # "200"
             /\ lc.invalid[k][1] \in Range(lc.probes)
             /\ lc.outcomes[Pos(lc.links, lc.invalid[k][1])] = lc.invalid[k][2])
    /\ [][(lc.pc = "loop" /\ lc.i' = lc.i + 1) => lc.pc' = "loop"]_vars
    /\ []((Completed /\ lc.links # <<>>) => lc.probes = lc.links)
    /\ [](lc.pc = "done" => lc.result # NoReturn /\ Len(lc.result) = 3)

C19_Witness ==
    /\ Completed
    /\ lc.outcomes = <<"error", "404", "200">>
    /\ lc.probes = lc.links
    /\ Len(lc.invalid) = 2
    /\ lc.result[2] = <<lc.links[3]>>

\* C20: the wrapped call of a traced method is made exactly once and the
\* method returns; two calls of the same method whose wrapped call comes to
\* the same thing return the same value after the same number of wrapped
\* calls, whatever the tracer and the logging mode of either call; a span
\* is emitted exactly when a tracer is set.
C20_TracingDoesNotSteer ==
    /\ tr.pc = "returned" => tr.inner = 1 /\ tr.ret # NoReturn
    /\ (tr.pc = "returned" /\ tr.prev.fn = tr.fn /\ tr.prev.resp = tr.resp) =>
           tr.prev.ret = tr.ret /\ tr.prev.inner = tr.inner
    /\ tr.pc \in {"handle", "returned"} => (tr.tracer = ("span" \in tr.emitted))

C20_Witness ==
    /\ tr.pc = "returned"
    /\ tr.fn = "validate_answer"
    /\ tr.prev.fn = tr.fn
    /\ tr.prev.resp = tr.resp
    /\ tr.resp = "raise"
    /\ tr.prev.tracer # tr.tracer
    /\ tr.prev.headless # tr.headless
    /\ "span" \in tr.emitted

\* C21: under every interleaving of the two threads each call returns what
\* it returns when run alone on the responses it received, and nothing
\* before it is done; a step changes the attempt counter and the accumulator
\* of no call but the one whose position it changes.
C21_ThreadsDoNotInterfere ==
    /\ [](\A t \in Threads :
            IF cw.pc[t] = "done"
            THEN cw.result[t] = RunAlone(cw.log[t], cw.max[t], cw.limit[t], 1, <<>>,
                                         GeneratorFailureMsg(t))
            ELSE cw.result[t] = NoResult)
    /\ [][\A t \in Threads :
            cw.pc'[t] = cw.pc[t] =>
              cw.attempt'[t] = cw.attempt[t] /\ cw.acc'[t] = cw.acc[t]]_vars

C21_Witness ==
    /\ \A t \in Threads : cw.pc[t] = "done"
    /\ cw.result["ask"].success
    /\ cw.result["ask"].links # <<>>
    /\ cw.result["import"] = Failure(MsgExhausted)
    /\ cw.attempt["ask"] = 2
    /\ cw.attempt["import"] = 3
    /\ cw.agents_created = 2

\* C22: between attempts the workflow can be ended without another generator
\* call: whenever a second or later attempt is about to start, some step of
\* the program ends the run and calls the generator no more.
C22_AbortableBetweenAttempts ==
    (pc = "generate" /\ attempt > 1) =>
        ENABLED (Next /\ pc' = "done" /\ genCalls' = genCalls)

\* What the code does instead: nothing is read between attempts, so every
\* step out of the head of the loop is a generator call.
C22_NextAttemptAlwaysGenerates ==
    [][pc = "generate" => genCalls' = genCalls + 1]_vars

\* C23: once __enter__ has succeeded, the deletion of the thread and the
\* deletion of the agent are each attempted at most once, the thread before
\* the agent, and both have been attempted exactly once by the time control
\* is back with the caller, however the body ended.
C23_SessionAlwaysCleansUp ==
    /\ CallCount("delete_thread") <= 1
    /\ CallCount("delete_agent") <= 1
    /\ (fs.pc = "returned" /\ CallResult("create_thread") = "ok") =>
          /\ fs.body = 1
          /\ CallCount("delete_thread") = 1
          /\ CallCount("delete_agent") = 1
          /\ fs.calls[3][1] = "delete_thread"
          /\ fs.calls[4][1] = "delete_agent"

C23_Witness ==
    /\ fs.pc = "returned"
    /\ fs.body = 1
    /\ fs.exc = <<"ValueError">>
    /\ CallResult("delete_thread") = "raise"
    /\ CallResult("delete_agent") = "ok"

\* C24: the with statement ends for its caller as its body ended: an
\* exception of the body reaches the caller as it is, and a normal end stays
\* a normal end, whether or not a deletion failed.
C24_ExitKeepsTheOutcome ==
    (fs.pc = "returned" /\ fs.body = 1) =>
        fs.outcome = IF fs.exc = None THEN <<"normal">> ELSE <<"raise", fs.exc>>

C24_Witness ==
    /\ fs.pc = "returned"
    /\ fs.body = 1
    /\ fs.outcome = <<"raise", <<"RuntimeError">>>>
    /\ CallResult("delete_thread") = "raise"
    /\ CallResult("delete_agent") = "raise"

\* C25: when the thread creation raises, the agent's deletion is attempted
\* once and the thread's never; when the agent creation raises, nothing is
\* deleted; either way the creation error is raised to the caller and the
\* body does not run.
C25_FailedEnterCleansWhatExists ==
    /\ (fs.pc = "returned" /\ CallResult("create_thread") = "raise") =>
          /\ CallCount("delete_agent") = 1
          /\ CallCount("delete_thread") = 0
          /\ fs.outcome = <<"raise", <<"create_thread">>>>
    /\ (fs.pc = "returned" /\ CallResult("create_agent") = "raise") =>
          /\ CallCount("delete_agent") = 0
          /\ CallCount("delete_thread") = 0
          /\ CallCount("create_thread") = 0
          /\ fs.outcome = <<"raise", <<"create_agent">>>>
    /\ (CallResult("create_thread") # "ok") => fs.body = 0

C25_Witness ==
    /\ fs.pc = "returned"
    /\ CallResult("create_thread") = "raise"
    /\ CallResult("delete_agent") = "raise"

\* the role the keyword sets give a header, compared without case
KeywordRole(header) ==
    CASE header = "Question" -> "question"
      [] header \in {"Answer", "Response"} -> "answer"
      [] header = "Docs" -> "docs"
      [] OTHER -> "none"

\* the columns of the sheet have been identified
Classified == bt.events # <<>>

\* C26: a sheet whose question column or answer column is not resolved gets
\* no workflow and no row, is not written back, and the driver goes on to
\* the next sheet (or ends after the last one) without an error, so that at
\* the end every sheet has been looked at.
C26_UnresolvedSheetIsSkipped ==
    /\ [](Classified /\ (bt.cols[1] = NoColumn \/ bt.cols[2] = NoColumn) =>
            /\ bt.events = <<<<"classify">>>>
            /\ bt.pc \in {"read_sheet", "done"}
            /\ bt.attempted = 0
            /\ bt.answers = {}
            /\ \A e \in bt.saved : e[1] # Last(bt.classified))
    /\ [](bt.pc = "done" => bt.classified = [i \in 1..bt.total |-> i])
    /\ [][(bt.pc = "classify" /\ (bt.cols'[1] = NoColumn \/ bt.cols'[2] = NoColumn)) =>
            IF bt.sheet < bt.total
            THEN bt.pc' = "read_sheet" /\ bt.sheet' = bt.sheet + 1
            ELSE bt.pc' = "done"]_vars

C26_Witness ==
    /\ bt.pc = "read_sheet"
    /\ bt.sheet = 2
    /\ ~bt.failed
    /\ bt.cols[1] = "Question"
    /\ bt.cols[2] = NoColumn
    /\ bt.nrows = 2
    /\ bt.events = <<<<"classify">>>>

\* C27: for every sheet the classifier is called once and first; then every
\* row is taken once, in order; a row runs the workflow exactly when its
\* question is not blank; and all rows are taken whatever the workflows of
\* the rows before returned.
C27_OneWorkflowPerQuestionRow ==
    /\ \A i \in 1..Len(bt.classified) : bt.classified[i] = i
    /\ Classified => bt.events[1] = <<"classify">>
    /\ \A i \in 2..Len(bt.events) :
          /\ bt.events[i][1] \in {"workflow", "blank"}
          /\ bt.events[i][2] = i - 1
          /\ (bt.events[i][1] = "workflow") = (bt.events[i][3] = "question")
    /\ (Classified /\ bt.pc \in {"read_sheet", "done"} /\ Len(bt.events) > 1) =>
          Len(bt.events) = bt.nrows + 1
    /\ bt.attempted = Cardinality({i \in 2..Len(bt.events) : bt.events[i][1] = "workflow"})

C27_Witness ==
    /\ bt.pc = "done"
    /\ bt.total = 2
    /\ bt.events = <<<<"classify">>, <<"workflow", 1, "question", "generator failed">>,
                     <<"workflow", 2, "question", "success">>>>
    /\ <<2, {2}>> \in bt.saved

\* C28: when the classification backend fails (raises or gives no message),
\* a sheet with a header for the question keyword and a header for the
\* answer keywords is resolved all the same, so that its rows are processed.
C28_FallbackResolvesByHeader ==
    (/\ Classified
     /\ bt.failed
     /\ \E h \in Range(bt.headers) : KeywordRole(h) = "question"
     /\ \E h \in Range(bt.headers) : KeywordRole(h) = "answer")
    => bt.cols[1] # NoColumn /\ bt.cols[2] # NoColumn

\* What the code does instead: when the backend fails, no column is
\* resolved, whatever the headers are, and the sheet is skipped.
C28_FailedClassifierSkipsSheet ==
    (Classified /\ bt.failed) =>
        /\ bt.cols = <<NoColumn, NoColumn, NoColumn>>
        /\ bt.events = <<<<"classify">>>>
        /\ bt.pc \in {"read_sheet", "done"}

\* The characters the patterns of the extractor start from or hinge on.
MarkerChars ==
    {"[", "]", "(", ")", "*", "#", "-", ".", ":", "/", Backtick, BulletChar,
     LeftLenticular, RightLenticular}

\* C29: given its own clean text, the extractor returns that text unchanged
\* and no URL.
C29_ExtractIsIdempotent ==
    ex.pc = "again" => (ex.clean2 = ex.clean /\ ex.urls2 = <<>>)

\* What the code does: every pattern is substituted once, so a removal can
\* put a new match together and the second run removes more; it never adds
\* a character, and it leaves a clean text without marker characters as it
\* is.
C29_SecondRunOnlyRemoves ==
    ex.pc = "again" =>
        /\ Len(ex.clean2) <= Len(ex.clean)
        /\ Range(ex.clean) \cap MarkerChars = {} =>
              (ex.clean2 = ex.clean /\ ex.urls2 = <<>>)

\* C30 as stated: the example text gives the clean text
\* "AI is useful . See ." and the one URL "https://example.com/doc.".
C30_ExampleAsStated ==
    (ex.pc \in {"extracted", "again"} /\ ex.text = ExampleText) =>
        /\ ex.clean =
            <<"A", "I", " ", "i", "s", " ", "u", "s", "e", "f", "u", "l", " ",
            ".", " ", "S", "e", "e", " ", ".">>
        /\ ex.urls =
            <<<<"h", "t", "t", "p", "s", ":", "/", "/", "e", "x", "a", "m", "p", "l",
                  "e", ".", "c", "o", "m", "/", "d", "o", "c", ".">>>>

\* C30: the example text gives the clean text "AI is useful . See" and the
\* one URL "https://example.com/doc.": the final period belongs to the URL
\* match and leaves the text with it.
C30_ExampleResult ==
    (ex.pc \in {"extracted", "again"} /\ ex.text = ExampleText) =>
        /\ ex.clean =
            <<"A", "I", " ", "i", "s", " ", "u", "s", "e", "f", "u", "l", " ",
            ".", " ", "S", "e", "e">>
        /\ ex.urls =
            <<<<"h", "t", "t", "p", "s", ":", "/", "/", "e", "x", "a", "m", "p", "l",
                  "e", ".", "c", "o", "m", "/", "d", "o", "c", ".">>>>

C30_Witness ==
    /\ ex.pc = "extracted"
    /\ ex.text = ExampleText
    /\ Len(ex.urls) = 1
    /\ Len(ex.clean) < Len(ex.text)

-----------------------------------------------------------------------------
\* C31: the cleanup is ordered and independent: no thread deletion is
\* attempted after an agent deletion, a step that attempts the agent
\* deletion is taken only after the thread's turn is over, and when the
\* thread deletion raised the agent deletion is still attempted once before
\* the cleanup is left.
C31_CleanupOrderedAndIndependent ==
    /\ \A i, j \in 1..Len(fs.calls) :
          (fs.calls[i][1] = "delete_agent" /\ fs.calls[j][1] = "delete_thread")
             => j < i
    /\ (fs.pc \in {"leave", "returned"} /\ CallResult("delete_thread") = "raise")
          => CallCount("delete_agent") = 1
    /\ (fs.pc = "cleanup_agent" /\ ThreadCleanupDue(fs.thread_id))
          => (CallCount("delete_thread") = 1 /\ CallCount("delete_agent") = 0)

C31_Witness ==
    /\ fs.pc = "leave"
    /\ fs.from = "exit"
    /\ Len(fs.calls) = 4
    /\ fs.calls[3] = <<"delete_thread", "raise">>
    /\ fs.calls[4][1] = "delete_agent"

-----------------------------------------------------------------------------
\* the sheet has been gone through and, if a question was attempted, saved
RowsDone == Classified /\ bt.pc \in {"read_sheet", "done"} /\ Len(bt.ws) = bt.nrows

\* what the workflow of row i returned
RowReturn(i) == WorkflowReturn(bt.events[i + 1][4])

\* C32: after a sheet is done, a row whose workflow failed has in its
\* answer cell and in its documentation cell the values they had when the
\* sheet was read; a row whose workflow succeeded has the returned answer in
\* its answer cell, and its documentation cell differs from what was read
\* only if a documentation column was resolved and the link list is not
\* empty.
C32_FailedRowUntouched ==
    RowsDone =>
      \A i \in 1..Len(bt.ws) :
        bt.events[i + 1][1] = "workflow" =>
          IF RowReturn(i).success
          THEN /\ bt.ws[i][bt.cols[2]] = Text(RowReturn(i).answer)
               /\ (bt.cols[3] # NoColumn
                     /\ bt.ws[i][bt.cols[3]] # bt.before[i][bt.cols[3]])
                      => DocsDue(bt.cols[3], RowReturn(i).links)
          ELSE /\ bt.ws[i][bt.cols[2]] = bt.before[i][bt.cols[2]]
               /\ bt.cols[3] # NoColumn =>
                      bt.ws[i][bt.cols[3]] = bt.before[i][bt.cols[3]]

\* What the code does.  The save loop sets the answer cell and the
\* documentation cell of every question row to str() of the value in df,
\* whether or not the workflow of the row succeeded: after a failure a cell
\* that held a number holds its text, and never the failure message.  After
\* a success the documentation cell holds the joined links; so does the
\* answer cell when the classifier named one column for both roles, and
\* otherwise it holds the answer.  No other cell of the row changes.
C32_RowCellsAfterSave ==
    RowsDone =>
      \A i \in 1..Len(bt.ws) :
        LET ret == RowReturn(i)
            kept(h) == IF NotBlank(bt.before[i][h]) THEN Str(bt.before[i][h])
                       ELSE bt.before[i][h]
        IN  /\ \A h \in Range(bt.headers) \ {bt.cols[2], bt.cols[3]} :
                  bt.ws[i][h] = bt.before[i][h]
            /\ bt.events[i + 1][1] = "blank" => bt.ws[i] = bt.before[i]
            /\ (bt.events[i + 1][1] = "workflow" /\ ~ret.success) =>
                  /\ \A h \in {bt.cols[2], bt.cols[3]} \ {NoColumn} :
                        bt.ws[i][h] = kept(h) /\ bt.ws[i][h] # Text(ret.answer)
            /\ (bt.events[i + 1][1] = "workflow" /\ ret.success) =>
                  /\ bt.cols[3] # NoColumn =>
                        bt.ws[i][bt.cols[3]] = Text(Join(ret.links))
                  /\ bt.cols[3] # bt.cols[2] =>
                        bt.ws[i][bt.cols[2]] = Text(ret.answer)

C32_Witness ==
    /\ bt.pc = "done"
    /\ bt.cols = <<"Question", "Answer", NoColumn>>
    /\ Len(bt.ws) = 2
    /\ bt.events[2] = <<"workflow", 1, "question", "success">>
    /\ bt.events[3] = <<"workflow", 2, "question", "exhausted">>
    /\ bt.before[2]["Answer"] = Number(42)
    /\ bt.ws[2]["Answer"] = Text("42")
    /\ bt.ws[1]["Answer"] = Text("answer")

-----------------------------------------------------------------------------
\* the first n calls of the two threads were the same calls with the same
\* responses
AgreeUpTo(n) ==
    /\ n <= Len(cw.log["ask"])
    /\ n <= Len(cw.log["import"])
    /\ \A i \in 1..n : /\ cw.made["ask"][i] = cw.made["import"][i]
                       /\ cw.log["ask"][i] = cw.log["import"][i]

-----------------------------------------------------------------------------
-----------------------------------------------------------------------------
\* C35: a success of _execute_workflow or process_question_with_agents
\* carries at least one link, the link validator was called in the run, and
\* each returned link got HTTP 200 from a probe of this run; and no step
\* returns a success whose link list is empty.
C35_SuccessHasProbedLinks ==
    /\ []((wf \in UiWorkflows /\ result.success) =>
             /\ Len(result.links) >= 1
             /\ lvCalls >= 1
             /\ \A i \in 1..Len(result.links) : result.links[i] \in probedOk)
    /\ [][(wf \in UiWorkflows /\ result'.success /\ ~result.success) =>
             (pc = "decide" /\ links_valid /\ result'.links # <<>>)]_vars

C35_Witness ==
    /\ wf = "execute_workflow"
    /\ Succeeded
    /\ earlier
    /\ Len(result.links) = 1
    /\ Cardinality(probedOk) = 1
    /\ lvCalls = 2

-----------------------------------------------------------------------------
\* the step rejects the attempt: the text is over the limit, the answer
\* validator does not accept, or link validation leaves nothing to return
RejectingStep ==
    \/ pc = "check_limit" /\ pc' # "validate_answer"
    \/ pc = "validate_answer" /\ pc' # "validate_links" /\ raised' = raised
    \/ pc = "validate_links" /\ wf = "answer_question" /\ ~result'.success
          /\ raised' = raised
    \/ pc = "decide" /\ ~result'.success

\* C36: a run starts with the attempt counter at 1; a step of a run adds
\* one to the counter when it rejects the attempt and leaves the counter
\* alone otherwise; the counter is at least 1 and, for max_attempts >= 0, at
\* most max_attempts + 1; when the generator is about to be called it has
\* been called attempt - 1 times and the call makes it attempt times; and
\* link-validator calls <= answer-validator calls <= generator calls.
C36_AttemptCounter ==
    /\ [][~Running => attempt' = 1]_vars
    /\ [][Running => attempt' = IF RejectingStep THEN attempt + 1 ELSE attempt]_vars
    /\ [](attempt >= 1 /\ (max_attempts >= 0 => attempt <= max_attempts + 1))
    /\ [](pc = "generate" => genCalls = attempt - 1)
    /\ [][pc = "generate" => genCalls' = attempt]_vars
    /\ [](lvCalls <= avCalls /\ avCalls <= genCalls)

C36_Witness ==
    /\ wf = "execute_workflow"
    /\ pc = "generate"
    /\ attempt = 3
    /\ max_attempts = 10
    /\ genCalls = 2
    /\ avCalls = 1
    /\ lvCalls = 1
    /\ lvAt[2] = "reject"

-----------------------------------------------------------------------------
\* C37: create_agents runs at most once on one window object, also when the
\* Ask thread and the import thread run at the same time.
C37_AgentsCreatedOnce == cw.agents_created <= 1

\* What the code does: a thread tests the three ids once, when it starts,
\* and nothing keeps the other thread from testing them before the first
\* has assigned them.  A thread that starts with the ids set creates
\* nothing; a second creation is always by a thread that had tested the
\* ids before the first creation assigned them; each thread creates at most
\* once.
C37_IdsTestedOnlyAtStart ==
    /\ [][\A t \in Threads :
            (cw.pc[t] = "idle" /\ cw.pc'[t] # "idle") =>
                (cw.pc'[t] = "create_agents") = ~cw.agent_ids]_vars
    /\ [][cw.agents_created' > cw.agents_created =>
            /\ cw.agents_created' = cw.agents_created + 1
            /\ \E t \in Threads : cw.pc[t] = "create_agents" /\ cw.pc'[t] = "generate"
            /\ cw.agent_ids']_vars
    /\ [](cw.agents_created <= Cardinality(Threads))
    /\ [](cw.agents_created >= 1 => cw.agent_ids)

C37_Witness ==
    /\ cw.agents_created = 2
    /\ cw.agent_ids
    /\ cw.pc["ask"] = "generate"
    /\ cw.pc["import"] = "generate"
    /\ cw.log["ask"] = <<>>
    /\ cw.log["import"] = <<>>

-----------------------------------------------------------------------------
\* C38: the command-line orchestrator leaks no remote resource: never more
\* than one session is entered and not yet left, every method that opened a
\* session returns with a deletion attempted for each agent and thread the
\* session created, and so answer_question, however it returns (success,
\* exhausted attempts, generator failure), leaves nothing of its run behind.
AQ_Returned == fs.pc = "idle" /\ fs.aq \in {"success", "exhausted", "generator failed"}

C38_OrchestratorLeaksNothing ==
    fs.pc # "absent" =>
        /\ fs.open \in {0, 1}
        /\ fs.pc \in {"returned", "call", "idle"} => fs.pending = {} /\ fs.open = 0
        /\ AQ_Returned => fs.pending = {} /\ fs.open = 0

\* answer_question has used up its attempts, and in the last session of the
\* run, the answer checker's, both deletions raised
C38_Witness ==
    /\ AQ_Returned
    /\ fs.aq = "exhausted"
    /\ fs.attempt = MAX_ATTEMPTS + 1
    /\ fs.name = "answer-checker"
    /\ fs.calls = << <<"create_agent", "ok">>, <<"create_thread", "ok">>,
                     <<"delete_thread", "raise">>, <<"delete_agent", "raise">> >>

=============================================================================
